---- MODULE Spec2Model ----
(***************************************************************************)
(* Song generator (song_generator.esm.js) and the arrangement normalizer   *)
(* of App.jsx.  Strings are sequences of one-character strings; 32-bit     *)
(* words are pairs <<hi, lo>> of 16-bit halves; beat positions are         *)
(* integers in units of 1/UnitsPerBeat beat.                               *)
(***************************************************************************)
EXTENDS Integers, Sequences, FiniteSets, TLC

\* ------------------------------------------------------------------------
\* 32-bit word arithmetic (Math.imul, ^, |, >>>, + on int32)
\* ------------------------------------------------------------------------
Half == 256 * 256

\* let x = v; ... F(x): v is evaluated once, however often F uses x
Let(v, F(_)) == F(v)

RECURSIVE Xor16(_, _)
Xor16(a, b) ==
  IF a = 0 THEN b
  ELSE IF b = 0 THEN a
  ELSE (((a % 2) + (b % 2)) % 2) + 2 * Xor16(a \div 2, b \div 2)

RECURSIVE Or16(_, _)
Or16(a, b) ==
  IF a = 0 THEN b
  ELSE IF b = 0 THEN a
  ELSE (IF (a % 2) = 1 \/ (b % 2) = 1 THEN 1 ELSE 0) + 2 * Or16(a \div 2, b \div 2)

Pow2(n) == CASE n = 7 -> 128 [] n = 14 -> 16384 [] n = 15 -> 32768

\* a word from a non-negative integer below 2^31
Word(n) == <<n \div Half, n % Half>>

Xor32(x, y) == <<Xor16(x[1], y[1]), Xor16(x[2], y[2])>>

\* x | c for a constant c below 2^16
OrSmall(x, c) == <<x[1], Or16(x[2], c)>>

Add32(x, y) ==
  LET lo == x[2] + y[2]
  IN  <<(x[1] + y[1] + (lo \div Half)) % Half, lo % Half>>

\* x >>> n for 0 < n < 16
Shr32(x, n) ==
  <<x[1] \div Pow2(n), (x[2] \div Pow2(n)) + (x[1] % Pow2(n)) * (Half \div Pow2(n))>>

\* full 32-bit product of two 16-bit halves, as a word
Mul16(a, b) ==
  LET p1 == (a \div 256) * b
      p0 == (a % 256) * b
      s  == (p1 % 256) * 256 + p0
  IN  <<((p1 \div 256) + (s \div Half)) % Half, s % Half>>

\* Math.imul: the low 32 bits of the product
Imul(x, y) ==
  LET ll == Mul16(x[2], y[2])
      hl == Mul16(x[1], y[2])
      lh == Mul16(x[2], y[1])
  IN  <<(ll[1] + hl[2] + lh[2]) % Half, ll[2]>>

\* ------------------------------------------------------------------------
\* prng: mulberry32.  The closure's captured variable a is the state.
\* ------------------------------------------------------------------------
Golden == <<27947, 31221>>   \* 0x6D2B79F5

prng(seedWord) == seedWord

\* one call of the closure: the new captured a and the returned 32-bit
\* numerator v (the call returns v / 2^32)
rng(a) ==
  Let(Add32(a, Golden), LAMBDA a1 :
  Let(Imul(Xor32(a1, Shr32(a1, 15)), OrSmall(a1, 1)), LAMBDA t1 :
  Let(Xor32(t1, Add32(t1, Imul(Xor32(t1, Shr32(t1, 7)), OrSmall(t1, 61)))), LAMBDA t2 :
    [a |-> a1, v |-> Xor32(t2, Shr32(t2, 14))])))

\* floor(num * 2^32 / den) as a word, for 0 < num < den
FracWord(num, den) ==
  LET h == (num * Half) \div den
      r == (num * Half) % den
  IN  <<h, (r * Half) \div den>>

WordLE(x, y) == x[1] < y[1] \/ (x[1] = y[1] /\ x[2] <= y[2])

\* v / 2^32 < num / den, for a fraction whose product with 2^32 is not an integer
RngLess(v, num, den) == WordLE(v, FracWord(num, den))

\* Math.floor((v / 2^32) * n) for small n
RngFloor(v, n) == (v[1] * n + ((v[2] * n) \div Half)) \div Half

\* ------------------------------------------------------------------------
\* Utils
\* ------------------------------------------------------------------------
NOTE_TO_SEMI(name) ==
  CASE name = <<"C">> -> 0  [] name = <<"C","#">> -> 1  [] name = <<"D","b">> -> 1
    [] name = <<"D">> -> 2  [] name = <<"D","#">> -> 3  [] name = <<"E","b">> -> 3
    [] name = <<"E">> -> 4  [] name = <<"F">> -> 5      [] name = <<"F","#">> -> 6
    [] name = <<"G","b">> -> 6 [] name = <<"G">> -> 7   [] name = <<"G","#">> -> 8
    [] name = <<"A","b">> -> 8 [] name = <<"A">> -> 9   [] name = <<"A","#">> -> 10
    [] name = <<"B","b">> -> 10 [] name = <<"B">> -> 11
    [] OTHER -> -1          \* undefined

MAJOR == <<0, 2, 4, 5, 7, 9, 11>>
MINOR == <<0, 2, 3, 5, 7, 8, 10>>

clamp(v, a, b) == IF v < a THEN a ELSE IF v > b THEN b ELSE v

Max(a, b) == IF a >= b THEN a ELSE b

\* array.reduce((a, b) => a + b, 0)
RECURSIVE SumSeq(_)
SumSeq(q) == IF q = <<>> THEN 0 ELSE Head(q) + SumSeq(Tail(q))

\* String.prototype.toUpperCase on the characters of the model's alphabet
UpperChar(c) ==
  CASE c = "a" -> "A" [] c = "b" -> "B" [] c = "c" -> "C" [] c = "d" -> "D"
    [] c = "e" -> "E" [] c = "f" -> "F" [] c = "g" -> "G" [] c = "i" -> "I"
    [] c = "j" -> "J" [] c = "m" -> "M" [] c = "n" -> "N" [] c = "u" -> "U"
    [] c = "v" -> "V" [] c = "x" -> "X" [] c = "y" -> "Y" [] c = "z" -> "Z"
    [] OTHER -> c

LowerChar(c) ==
  CASE c = "M" -> "m" [] OTHER -> c

toUpperCase(s) == [i \in 1..Len(s) |-> UpperChar(s[i])]

\* the index of the first occurrence of c in s, 0 when there is none
RECURSIVE IndexOf(_, _, _)
IndexOf(s, c, i) ==
  IF i > Len(s) THEN 0 ELSE IF s[i] = c THEN i ELSE IndexOf(s, c, i + 1)

\* String.prototype.replace(c, ''): removes the first occurrence only
RemoveFirst(s, c) ==
  LET i == IndexOf(s, c, 1)
  IN  IF i = 0 THEN s ELSE SubSeq(s, 1, i - 1) \o SubSeq(s, i + 1, Len(s))

\* ------------------------------------------------------------------------
\* Chord parsers
\* ------------------------------------------------------------------------
Null == [null |-> TRUE]

DEG(upper) ==
  CASE upper = <<"I">> -> 0 [] upper = <<"I","I">> -> 1 [] upper = <<"I","I","I">> -> 2
    [] upper = <<"I","V">> -> 3 [] upper = <<"V">> -> 4 [] upper = <<"V","I">> -> 5
    [] upper = <<"V","I","I">> -> 6
    [] OTHER -> -1          \* undefined

\* parseRomanChord with the quality taken from the case of the first letter
parseRomanChordFirstLetter(symbol) ==
  LET isDim == IndexOf(symbol, "°", 1) # 0
      s     == RemoveFirst(symbol, "°")
      upper == toUpperCase(s)
      degree == DEG(upper)
  IN  IF degree = -1 THEN Null
      ELSE [degree |-> degree,
            quality |-> IF isDim THEN "dim" ELSE IF s[1] = upper[1] THEN "maj" ELSE "min"]

parseRomanChord(symbol) ==
  LET isDim == IndexOf(symbol, "°", 1) # 0
      s     == RemoveFirst(symbol, "°")
      upper == toUpperCase(s)
      degree == DEG(upper)
  IN  IF degree = -1 THEN Null
      ELSE [degree |-> degree,
            quality |-> IF isDim THEN "dim" ELSE IF s = upper THEN "maj" ELSE "min"]

RootLetters == {"A","B","C","D","E","F","G","a","b","c","d","e","f","g"}
QualitySuffixes == {<<"m","a","j">>, <<"m","i","n">>, <<"m">>, <<"d","i","m">>,
                    <<"a","u","g">>, <<"M">>}

\* /^([A-Ga-g])([b#]?)(maj|min|m|dim|aug|M)?(7)?$/ : the groups, or Null
MatchNameChord(tok) ==
  IF Len(tok) = 0 \/ tok[1] \notin RootLetters THEN Null
  ELSE LET hasAcc == Len(tok) >= 2 /\ tok[2] \in {"b", "#"}
           afterAcc == IF hasAcc THEN SubSeq(tok, 3, Len(tok)) ELSE SubSeq(tok, 2, Len(tok))
           has7 == Len(afterAcc) >= 1 /\ afterAcc[Len(afterAcc)] = "7"
           suffix == IF has7 THEN SubSeq(afterAcc, 1, Len(afterAcc) - 1) ELSE afterAcc
       IN  IF suffix = <<>> \/ suffix \in QualitySuffixes
           THEN [root |-> tok[1],
                 accidental |-> IF hasAcc THEN <<tok[2]>> ELSE <<>>,
                 q |-> suffix]
           ELSE Null

parseNameChord(tok) ==
  LET m == MatchNameChord(tok)
  IN  IF m = Null THEN Null
      ELSE LET root == UpperChar(m.root)
               q == [i \in 1..Len(m.q) |-> LowerChar(m.q[i])]
               quality == IF q = <<"m">> \/ q = <<"m","i","n">> THEN "min"
                          ELSE IF q = <<"d","i","m">> THEN "dim"
                          ELSE IF q = <<"a","u","g">> THEN "aug"
                          ELSE "maj"
               full == NOTE_TO_SEMI(<<root>> \o m.accidental)
           IN  [rootSemi |-> (IF full # -1 THEN full ELSE NOTE_TO_SEMI(<<root>>)) % 12,
                quality |-> quality]

\* the two while loops that keep a note within 48..72
RECURSIVE KeepInRange(_)
KeepInRange(n) ==
  IF n > 72 THEN KeepInRange(n - 12)
  ELSE IF n < 48 THEN KeepInRange(n + 12)
  ELSE n

buildChordByDegree(degree, quality, mode, keySemi) ==
  LET scale == IF mode = "minor" THEN MINOR ELSE MAJOR
      rootSemi == (keySemi + scale[degree + 1]) % 12
      root == 48 + rootSemi
      thirdInt == IF quality = "maj" THEN 4 ELSE 3
      fifthInt == IF quality = "dim" THEN 6 ELSE 7
  IN  <<KeepInRange(root), KeepInRange(root + thirdInt), KeepInRange(root + fifthInt)>>

\* buildChordByName with the root placed around C4
buildChordByNameC4(rootSemi, quality) ==
  LET root == 60 + (rootSemi % 12)
      thirdInt == IF quality = "maj" THEN 4 ELSE 3
      fifthInt == IF quality = "dim" THEN 6 ELSE IF quality = "aug" THEN 8 ELSE 7
  IN  <<KeepInRange(root), KeepInRange(root + thirdInt), KeepInRange(root + fifthInt)>>

buildChordByName(rootSemi, quality) ==
  LET root == 48 + (rootSemi % 12)
      thirdInt == IF quality = "maj" THEN 4 ELSE 3
      fifthInt == IF quality = "dim" THEN 6 ELSE IF quality = "aug" THEN 8 ELSE 7
  IN  <<KeepInRange(root), KeepInRange(root + thirdInt), KeepInRange(root + fifthInt)>>

\* ------------------------------------------------------------------------
\* Harmony map
\* ------------------------------------------------------------------------
Separators == {" ", "-", "|", ",", ";"}

\* prog.split(/[\s\-|,;]+/g).filter(Boolean): cur is the token being read
RECURSIVE SplitFrom(_, _, _)
SplitFrom(prog, i, cur) ==
  IF i > Len(prog) THEN (IF cur = <<>> THEN <<>> ELSE <<cur>>)
  ELSE IF prog[i] \in Separators
       THEN (IF cur = <<>> THEN <<>> ELSE <<cur>>) \o SplitFrom(prog, i + 1, <<>>)
       ELSE SplitFrom(prog, i + 1, Append(cur, prog[i]))

tokenizeProgression(prog) ==
  IF prog = <<>> THEN <<>> ELSE SplitFrom(prog, 1, <<>>)

\* ResolveToken with a fallback that follows the mode: the minor triad on the
\* key in minor mode
ResolveTokenModeFallback(tok, keySemi, mode) ==
  LET rn == parseRomanChord(tok)
  IN  IF rn # Null THEN buildChordByDegree(rn.degree, rn.quality, mode, keySemi)
      ELSE LET cn == parseNameChord(tok)
           IN  IF cn # Null THEN buildChordByName(cn.rootSemi, cn.quality)
               ELSE buildChordByDegree(0, IF mode = "minor" THEN "min" ELSE "maj", mode, keySemi)

\* the body of the bar loop: the notes of one token
ResolveToken(tok, keySemi, mode) ==
  LET rn == parseRomanChord(tok)
  IN  IF rn # Null THEN buildChordByDegree(rn.degree, rn.quality, mode, keySemi)
      ELSE LET cn == parseNameChord(tok)
           IN  IF cn # Null THEN buildChordByName(cn.rootSemi, cn.quality)
               ELSE buildChordByDegree(0, "maj", mode, keySemi)

\* SectionBars that pushes nothing for a section without tokens
RECURSIVE SectionBarsSkipEmpty(_, _, _, _, _)
SectionBarsSkipEmpty(toks, bar, bars, keySemi, mode) ==
  IF bar >= bars \/ Len(toks) = 0 THEN <<>>
  ELSE <<[notes |-> ResolveToken(toks[(bar % Len(toks)) + 1], keySemi, mode)]>>
       \o SectionBarsSkipEmpty(toks, bar + 1, bars, keySemi, mode)

\* the inner loop: for(let bar=0; bar<sec.bars; bar++)
RECURSIVE SectionBars(_, _, _, _, _)
SectionBars(toks, bar, bars, keySemi, mode) ==
  IF bar >= bars THEN <<>>
  ELSE LET tok == IF Len(toks) # 0 THEN toks[(bar % Len(toks)) + 1] ELSE <<"I">>
       IN  <<[notes |-> ResolveToken(tok, keySemi, mode)]>>
           \o SectionBars(toks, bar + 1, bars, keySemi, mode)

\* makeHarmonyMap that indexes the tokens by the bar's position in the whole
\* song instead of its position in the section
RECURSIVE makeHarmonyMapSongBar(_, _, _, _)
makeHarmonyMapSongBar(structure, defaultProg, keySemi, mode) ==
  IF structure = <<>> THEN <<>>
  ELSE LET front == SubSeq(structure, 1, Len(structure) - 1)
           sec == structure[Len(structure)]
           offset == SumSeq([i \in 1..Len(front) |-> front[i].bars])
           toks == tokenizeProgression(IF sec.chords # <<>> THEN sec.chords ELSE defaultProg)
       IN  makeHarmonyMapSongBar(front, defaultProg, keySemi, mode)
           \o [j \in 1..sec.bars |->
                 [notes |-> ResolveToken(IF Len(toks) # 0
                                         THEN toks[((offset + j - 1) % Len(toks)) + 1]
                                         ELSE <<"I">>, keySemi, mode)]]

\* the outer loop: for(const sec of structure)
RECURSIVE makeHarmonyMap(_, _, _, _)
makeHarmonyMap(structure, defaultProg, keySemi, mode) ==
  IF structure = <<>> THEN <<>>
  ELSE LET sec == Head(structure)
           toks == tokenizeProgression(IF sec.chords # <<>> THEN sec.chords ELSE defaultProg)
       IN  SectionBars(toks, 0, sec.bars, keySemi, mode)
           \o makeHarmonyMap(Tail(structure), defaultProg, keySemi, mode)

\* ------------------------------------------------------------------------
\* Arrangement normalizer (App.jsx).  Numbers the code computes in floating
\* point are exact rationals here; the input sets below avoid the ties on
\* which the two differ.
\* ------------------------------------------------------------------------
\* Math.round(n / d) for n >= 0, d > 0: nearest integer, ties upward
Round(n, d) == (2 * n + d) \div (2 * d)

SECTION_DEFAULTS(section) ==
  CASE section = "intro" -> 2 [] section = "verse" -> 8 [] section = "pre" -> 4
    [] section = "chorus" -> 8 [] section = "break" -> 8 [] section = "bridge" -> 4
    [] section = "outro" -> 2
    [] OTHER -> 0           \* undefined

Digits == {"0","1","2","3","4","5","6","7","8","9"}
DigitVal(c) ==
  CASE c = "0" -> 0 [] c = "1" -> 1 [] c = "2" -> 2 [] c = "3" -> 3 [] c = "4" -> 4
    [] c = "5" -> 5 [] c = "6" -> 6 [] c = "7" -> 7 [] c = "8" -> 8 [] c = "9" -> 9

RECURSIVE parseInt(_)
parseInt(ds) == IF ds = <<>> THEN 0 ELSE 10 * parseInt(SubSeq(ds, 1, Len(ds) - 1)) + DigitVal(ds[Len(ds)])

\* /^(\d+)\/(\d+)$/ and parseInt(m[1], 10) || 4
beatsPerBarFromTimeSig(ts) ==
  LET i == IndexOf(ts, "/", 1)
      numStr == SubSeq(ts, 1, i - 1)
      denStr == SubSeq(ts, i + 1, Len(ts))
      ok == /\ i > 1 /\ i < Len(ts)
            /\ \A k \in 1..Len(numStr) : numStr[k] \in Digits
            /\ \A k \in 1..Len(denStr) : denStr[k] \in Digits
      num == IF ok THEN parseInt(numStr) ELSE 4
  IN  IF num = 0 THEN 4 ELSE num

\* 60 / Math.max(40, Math.min(260, bpm || 120)), as the rational num / den
beatSeconds(bpm) == [num |-> 60, den |-> Max(40, IF (IF bpm = 0 THEN 120 ELSE bpm) > 260 THEN 260 ELSE (IF bpm = 0 THEN 120 ELSE bpm))]

\* ScaleBars without the floor of one bar
ScaleBarsNoFloor(bars, target, sum) ==
  [i \in 1..Len(bars) |-> Round(bars[i] * target, sum)]

\* bars.map(b => Math.max(1, Math.round(b * scale))) with scale = target / sum
ScaleBars(bars, target, sum) ==
  [i \in 1..Len(bars) |-> Max(1, Round(bars[i] * target, sum))]

\* args.targetBars = 0 and args.targetMin = 0 stand for an absent (falsy)
\* argument; targetMin is in tenths of a minute
normalizeBars(args) ==
  LET bars == args.baseBars
      sum == IF SumSeq(bars) = 0 THEN 1 ELSE SumSeq(bars)
  IN  IF args.targetBars # 0 THEN ScaleBars(bars, args.targetBars, sum)
      ELSE IF args.targetMin # 0
      THEN LET bs == beatSeconds(args.bpm)
               bpb == beatsPerBarFromTimeSig(args.timeSig)
               \* (targetMin * 60) / secPerBar = (tenths * 6 * den) / (bpb * num)
               targetTotal == Max(1, Round(args.targetMin * 6 * bs.den, bpb * bs.num))
           IN  ScaleBars(bars, targetTotal, sum)
      ELSE bars

friendlySectionName(section) ==
  CASE section = "pre" -> "Pre-Chorus" [] section = "intro" -> "Intro"
    [] section = "verse" -> "Verse" [] section = "chorus" -> "Chorus"
    [] section = "break" -> "Break" [] section = "bridge" -> "Bridge"
    [] section = "outro" -> "Outro" [] section = "solo" -> "Solo"
    [] OTHER -> section

\* the structure that buildSessionSpec puts into the SessionSpec
buildSessionSpec(timeline, targetMin, targetBars, bpm, timeSig) ==
  LET baseBars == [i \in 1..Len(timeline) |->
                     IF SECTION_DEFAULTS(timeline[i]) = 0 THEN 4 ELSE SECTION_DEFAULTS(timeline[i])]
      bars == normalizeBars([baseBars |-> baseBars, targetMin |-> targetMin,
                             targetBars |-> targetBars, bpm |-> bpm, timeSig |-> timeSig])
  IN  [i \in 1..Len(timeline) |->
         [name |-> friendlySectionName(timeline[i]), bars |-> bars[i], chords |-> <<>>]]

\* ------------------------------------------------------------------------
\* Lane generators: the midiOut pushes of #renderDrums, #renderBass,
\* #renderChords and #renderLead.  startBeat and durBeats are in units of
\* 1 / UnitsPerBeat beat.
\* ------------------------------------------------------------------------
UnitsPerBeat == 1000 * 100
beatsPerBar == 4

DrumSalt == <<208, 61902>>   \* 0xD0F1CE
LeadSalt == <<186, 55893>>   \* 0xBADA55

TotalBars(structure) == SumSeq([i \in 1..Len(structure) |-> structure[i].bars])

KeySemi(spec) == IF NOTE_TO_SEMI(spec.key) = -1 THEN 0 ELSE NOTE_TO_SEMI(spec.key)

\* DrumEvents with the extra kick half a beat before the beat instead of
\* half a beat after it
DrumEventsKickBefore(b, bpm, extraKick) ==
  LET beatInBar == b % beatsPerBar
      start == b * UnitsPerBeat
  IN  (IF beatInBar = 0 \/ beatInBar = 2
       THEN <<[startBeat |-> start, durBeats |-> UnitsPerBeat \div 10, note |-> 36, vel |-> 112]>>
       ELSE <<>>)
      \o (IF beatInBar = 1 \/ beatInBar = 3
          THEN <<[startBeat |-> start + ((60 * UnitsPerBeat) \div (100 * bpm)),
                  durBeats |-> UnitsPerBeat \div 10, note |-> 38, vel |-> 104]>>
          ELSE <<>>)
      \o (IF extraKick
          THEN <<[startBeat |-> start - (UnitsPerBeat \div 2),
                  durBeats |-> UnitsPerBeat \div 10, note |-> 36, vel |-> 102]>>
          ELSE <<>>)

\* the midiOut pushes of beat b of #renderDrums
DrumEvents(b, bpm, extraKick) ==
  LET beatInBar == b % beatsPerBar
      \* beatInBar===3 && (b/beatsPerBar)%8===7, with b/beatsPerBar a fraction
      fill == beatInBar = 3 /\ (b % (8 * beatsPerBar)) = 7 * beatsPerBar
      start == b * UnitsPerBeat
  IN  (IF beatInBar = 0 \/ beatInBar = 2
       THEN <<[startBeat |-> start, durBeats |-> UnitsPerBeat \div 10, note |-> 36, vel |-> 112]>>
       ELSE <<>>)
      \o (IF beatInBar = 1 \/ beatInBar = 3
          THEN <<[startBeat |-> start + ((60 * UnitsPerBeat) \div (100 * bpm)),
                  durBeats |-> UnitsPerBeat \div 10, note |-> 38, vel |-> 104]>>
          ELSE <<>>)
      \o (IF extraKick
          THEN <<[startBeat |-> start + (UnitsPerBeat \div 2),
                  durBeats |-> UnitsPerBeat \div 10, note |-> 36, vel |-> 102]>>
          ELSE <<>>)
      \o (IF fill
          THEN <<[startBeat |-> start + (UnitsPerBeat \div 4),
                  durBeats |-> UnitsPerBeat \div 4, note |-> 42, vel |-> 96],
                 [startBeat |-> start + (UnitsPerBeat \div 2),
                  durBeats |-> (12 * UnitsPerBeat) \div 100, note |-> 38, vel |-> 100]>>
          ELSE <<>>)

\* one iteration of the beat loop of #renderDrums: the events pushed on
\* beat b and the state of the drum stream after the beat's draws
DrumBeat(b, a, bpm) ==
  LET beatInBar == b % beatsPerBar
  IN  \* swing draw, on odd beats only
      Let(IF (b % 2) = 1 THEN rng(a).a ELSE a, LAMBDA a1 :
      \* hatVel draw
      Let(rng(a1).a, LAMBDA a2 :
      \* hatOpen = beatInBar===3 && rng()<0.6
      Let(rng(a2), LAMBDA r3 :
      Let(beatInBar = 3 /\ RngLess(r3.v, 6, 10), LAMBDA hatOpen :
      Let(IF beatInBar = 3 THEN r3.a ELSE a2, LAMBDA a3 :
      \* hatOpen && rng()<0.4 ; hatOpen && rng()>0.6
      Let(IF hatOpen THEN rng(rng(a3).a).a ELSE a3, LAMBDA a5 :
      \* beatInBar===1 && rng()<0.3
      Let(rng(a5), LAMBDA r6 :
        [a |-> IF beatInBar = 1 THEN r6.a ELSE a5,
         events |-> DrumEvents(b, bpm, beatInBar = 1 /\ RngLess(r6.v, 3, 10))])))))))

RECURSIVE DrumLoop(_, _, _, _)
DrumLoop(b, totalBeats, a, bpm) ==
  IF b >= totalBeats THEN <<>>
  ELSE Let(DrumBeat(b, a, bpm), LAMBDA step :
         step.events \o DrumLoop(b + 1, totalBeats, step.a, bpm))

renderDrums(spec) ==
  DrumLoop(0, TotalBars(spec.structure) * beatsPerBar,
           prng(Xor32(Word(spec.seed), DrumSalt)), spec.bpm)

\* the four pushes of one bar of #renderBass
BassBar(bar, chord) ==
  LET root == clamp(chord[1] - 12, 36, 60)
  IN  [i \in 1..4 |->
         [startBeat |-> (bar * 4 + (i - 1)) * UnitsPerBeat,
          durBeats |-> (98 * UnitsPerBeat) \div 100, midi |-> root, vel |-> 100]]

RECURSIVE BassLoop(_, _)
BassLoop(bar, harmony) ==
  IF bar >= Len(harmony) THEN <<>>
  ELSE BassBar(bar, harmony[bar + 1].notes) \o BassLoop(bar + 1, harmony)

renderBass(spec, harmony) == BassLoop(0, harmony)

renderChords(spec, harmony) ==
  [k \in 1..Len(harmony) |->
     [startBeat |-> (k - 1) * beatsPerBar * UnitsPerBeat,
      durBeats |-> beatsPerBar * UnitsPerBeat,
      midis |-> harmony[k].notes, vel |-> 90]]

\* one iteration of the while(pos < beatsPerBar) loop of #renderLead; pos is
\* in quarter beats
LeadStep(bar, pos, chord, a, keySemi, scale) ==
  \* sixteenth = rng() < 0.4
  Let(rng(a), LAMBDA r1 :
  Let(IF RngLess(r1.v, 4, 10) THEN 1 ELSE 2, LAMBDA dur :
  \* rng() < 0.55
  Let(rng(r1.a), LAMBDA r2 :
  \* chord branch: one draw; scale branch: the degree draw, then the octave draw
  Let(rng(r2.a), LAMBDA r3 :
  Let(rng(r3.a), LAMBDA r4 :
  Let(RngLess(r2.v, 55, 100), LAMBDA fromChord :
    [\* slide draw
     a |-> rng(IF fromChord THEN r3.a ELSE r4.a).a,
     dur |-> dur,
     event |-> [startBeat |-> bar * beatsPerBar * UnitsPerBeat + pos * (UnitsPerBeat \div 4),
                durBeats |-> dur * (UnitsPerBeat \div 4),
                midi |-> IF fromChord THEN chord[RngFloor(r3.v, 3) + 1]
                         ELSE clamp(70 + keySemi + scale[RngFloor(r3.v, 7) + 1]
                                    + 12 * RngFloor(r4.v, 2), 67, 88),
                vel |-> 96]]))))))

\* the while(pos < beatsPerBar) loop of one bar, from position pos on: the
\* events pushed and the state of the lead stream after the bar
RECURSIVE LeadBar(_, _, _, _, _, _)
LeadBar(bar, pos, chord, a, keySemi, scale) ==
  IF pos >= 4 * beatsPerBar THEN [a |-> a, events |-> <<>>]
  ELSE Let(LeadStep(bar, pos, chord, a, keySemi, scale), LAMBDA step :
       Let(LeadBar(bar, pos + step.dur, chord, step.a, keySemi, scale), LAMBDA rest :
         [a |-> rest.a, events |-> <<step.event>> \o rest.events]))

\* the loop over the bars
RECURSIVE LeadLoop(_, _, _, _, _)
LeadLoop(bar, harmony, a, keySemi, scale) ==
  IF bar >= Len(harmony) THEN <<>>
  ELSE Let(LeadBar(bar, 0, [i \in 1..3 |-> harmony[bar + 1].notes[i] + 12],
                   a, keySemi, scale), LAMBDA played :
         played.events \o LeadLoop(bar + 1, harmony, played.a, keySemi, scale))

\* renderLead with a stream that is seeded with the number of bars as well
renderLeadSeedByLength(spec, harmony) ==
  LeadLoop(0, harmony, prng(Xor32(Word(spec.seed + Len(harmony)), LeadSalt)), KeySemi(spec),
           IF spec.mode = "minor" THEN MINOR ELSE MAJOR)

renderLead(spec, harmony) ==
  LeadLoop(0, harmony, prng(Xor32(Word(spec.seed), LeadSalt)), KeySemi(spec),
           IF spec.mode = "minor" THEN MINOR ELSE MAJOR)

\* ------------------------------------------------------------------------
\* MIDI writer
\* ------------------------------------------------------------------------
\* the value of a call that never returns (no byte is negative)
Diverges == <<-1>>

\* VlqBuild that leaves the continuation bit out
RECURSIVE VlqBuildNoFlag(_, _)
VlqBuildNoFlag(n, buffer) ==
  LET n1 == n \div 128
  IN  IF n1 = 0 THEN buffer ELSE VlqBuildNoFlag(n1, buffer * 256 + (n1 % 128))

\* first loop of vlq: while((n >>= 7)){ buffer <<= 8; buffer |= (n & 0x7F) | 0x80 }
RECURSIVE VlqBuild(_, _)
VlqBuild(n, buffer) ==
  LET n1 == n \div 128
  IN  IF n1 = 0 THEN buffer ELSE VlqBuild(n1, buffer * 256 + ((n1 % 128) + 128))

\* second loop of vlq: push the low byte, continue while its bit 7 is set
RECURSIVE VlqEmit(_)
VlqEmit(buffer) ==
  <<buffer % 256>> \o (IF (buffer % 256) >= 128 THEN VlqEmit(buffer \div 256) ELSE <<>>)

\* for n < 0 the first loop never ends: n >>= 7 is an arithmetic shift that
\* reaches -1 and stays there, and -1 is truthy
vlq(n) == IF n < 0 THEN Diverges ELSE VlqEmit(VlqBuild(n, n % 128))

pushMeta(trk, delta, type, data) == trk \o vlq(delta) \o <<255, type, Len(data)>> \o data

pushEvent(trk, delta, status, data1, data2) == trk \o vlq(delta) \o <<status, data1, data2>>

programChangeTrack(ch, program) == pushEvent(<<>>, 0, 192 + ch, program, 0)

\* the notes of one event: one per pitch, vel defaulting to 96
EventNotes(e, ppq) ==
  LET onTick == Round(e.startBeat * ppq, UnitsPerBeat)
      offTick == Round((e.startBeat + e.durBeats) * ppq, UnitsPerBeat)
      vel == IF "vel" \in DOMAIN e THEN e.vel ELSE 96
  IN  IF "midis" \in DOMAIN e
      THEN [i \in 1..Len(e.midis) |->
              [onTick |-> onTick, offTick |-> offTick, midi |-> e.midis[i], vel |-> vel]]
      ELSE <<[onTick |-> onTick, offTick |-> offTick, midi |-> e.midi, vel |-> vel]>>

RECURSIVE NotesOf(_, _)
NotesOf(events, ppq) ==
  IF events = <<>> THEN <<>> ELSE EventNotes(Head(events), ppq) \o NotesOf(Tail(events), ppq)

\* the comparator of notes.sort: a.onTick-b.onTick || a.offTick-b.offTick
NoteBefore(a, b) == a.onTick < b.onTick \/ (a.onTick = b.onTick /\ a.offTick < b.offTick)

RECURSIVE InsertNote(_, _)
InsertNote(sorted, n) ==
  IF sorted = <<>> THEN <<n>>
  ELSE IF NoteBefore(n, Head(sorted)) THEN <<n>> \o sorted
  ELSE <<Head(sorted)>> \o InsertNote(Tail(sorted), n)

\* Array.prototype.sort is stable
RECURSIVE SortNotes(_)
SortNotes(notes) ==
  IF notes = <<>> THEN <<>>
  ELSE InsertNote(SortNotes(SubSeq(notes, 1, Len(notes) - 1)), notes[Len(notes)])

\* the delta loop of buildNoteTrack, from note i on
RECURSIVE NoteLoop(_, _, _, _, _)
NoteLoop(notes, i, lastTick, ch, trk) ==
  IF i > Len(notes) THEN pushMeta(trk, 0, 47, <<>>)
  ELSE LET n == notes[i]
           onDelta == n.onTick - lastTick
           offDelta == n.offTick - n.onTick
       IN  IF onDelta < 0 \/ offDelta < 0 THEN Diverges
           ELSE NoteLoop(notes, i + 1, n.offTick, ch,
                         pushEvent(pushEvent(trk, onDelta, 144 + ch, n.midi, n.vel),
                                   offDelta, 128 + ch, n.midi, 64))

buildNoteTrack(ch, events, ppq) == NoteLoop(SortNotes(NotesOf(events, ppq)), 1, 0, ch, <<>>)

\* the values of delta in the loop of buildNoteTrack, in the order in which
\* it hands them to pushEvent, from note i on
RECURSIVE DeltaLoop(_, _, _)
DeltaLoop(notes, i, lastTick) ==
  IF i > Len(notes) THEN <<>>
  ELSE <<notes[i].onTick - lastTick, notes[i].offTick - notes[i].onTick>>
       \o DeltaLoop(notes, i + 1, notes[i].offTick)

TrackDeltas(events, ppq) == DeltaLoop(SortNotes(NotesOf(events, ppq)), 1, 0)

\* drumEvents.map(d => ({startBeat, durBeats, midi: d.note, vel: d.vel ?? 90}))
DrumNotes(drumEvents) ==
  [i \in 1..Len(drumEvents) |->
     [startBeat |-> drumEvents[i].startBeat,
      durBeats |-> drumEvents[i].durBeats,
      midi |-> drumEvents[i].note,
      vel |-> IF "vel" \in DOMAIN drumEvents[i] THEN drumEvents[i].vel ELSE 90]]

DefaultPpq == 480

\* a chunk whose length field counts the tag and the length field as well
buildChunkWholeLength(type, data) ==
  LET len == Len(data) + 8
  IN  type \o <<(len \div 16777216) % 256, (len \div 65536) % 256, (len \div 256) % 256, len % 256>>
           \o data

buildChunk(type, data) ==
  LET len == Len(data)
  IN  type \o <<(len \div 16777216) % 256, (len \div 65536) % 256, (len \div 256) % 256, len % 256>>
           \o data

MThd == <<77, 84, 104, 100>>
MTrk == <<77, 84, 114, 107>>

\* writeMidi with the default ppq; Diverges when a track's delta loop does
writeMidi(midi) ==
  LET ppq == DefaultPpq
      tempoUsPerQ == 60000000 \div midi.bpm
      trk0 == pushMeta(pushMeta(pushMeta(<<>>, 0, 81,
                <<(tempoUsPerQ \div 65536) % 256, (tempoUsPerQ \div 256) % 256, tempoUsPerQ % 256>>),
                0, 88, <<4, 2, 24, 8>>), 0, 47, <<>>)
  IN  Let(buildNoteTrack(9, DrumNotes(midi.drumEvents), ppq), LAMBDA trkDrums :
      Let(buildNoteTrack(0, midi.bassEvents, ppq), LAMBDA noteBass :
      Let(buildNoteTrack(1, midi.chordEvents, ppq), LAMBDA noteChrd :
      Let(buildNoteTrack(2, midi.leadEvents, ppq), LAMBDA noteLead :
        IF Diverges \in {trkDrums, noteBass, noteChrd, noteLead} THEN Diverges
        ELSE buildChunk(MThd, <<0, 1, 0, 5, (ppq \div 256) % 256, ppq % 256>>)
             \o buildChunk(MTrk, trk0)
             \o buildChunk(MTrk, trkDrums)
             \o buildChunk(MTrk, programChangeTrack(0, 33) \o noteBass)
             \o buildChunk(MTrk, programChangeTrack(1, 48) \o noteChrd)
             \o buildChunk(MTrk, programChangeTrack(2, 81) \o noteLead)))))

\* ------------------------------------------------------------------------
\* WAV encoding.  The buffer given to encodeWav is a record numberOfChannels,
\* sampleRate, length, channels with channels[c][i] the sample of channel c
\* at frame i, a number of SampleUnit-ths (1.0 is SampleUnit).
\* ------------------------------------------------------------------------
SampleUnit == 4

Min(a, b) == IF a <= b THEN a ELSE b

\* view.setUint16(offset, v, true), view.setUint32(offset, v, true)
u16(v) == <<v % 256, (v \div 256) % 256>>
u32(v) == <<v % 256, (v \div 256) % 256, (v \div 65536) % 256, (v \div 16777216) % 256>>

\* the 44 bytes written before the samples, with the byte rate taken from
\* the sample rate alone
WavHeaderByteRateMono(numChan, sampleRate, numFrames) ==
  LET bytesPerSample == 2
      blockAlign == numChan * bytesPerSample
      byteRate == sampleRate * bytesPerSample
      dataSize == numFrames * blockAlign
  IN  <<82, 73, 70, 70>> \o u32(36 + dataSize) \o <<87, 65, 86, 69>>
      \o <<102, 109, 116, 32>> \o u32(16) \o u16(1) \o u16(numChan)
      \o u32(sampleRate) \o u32(byteRate) \o u16(blockAlign) \o u16(16)
      \o <<100, 97, 116, 97>> \o u32(dataSize)

\* the 44 bytes written before the samples: 'RIFF', 'WAVE', 'fmt ', 'data'
\* as character codes, the numbers little-endian
WavHeader(numChan, sampleRate, numFrames) ==
  LET bytesPerSample == 2
      blockAlign == numChan * bytesPerSample
      byteRate == sampleRate * blockAlign
      dataSize == numFrames * blockAlign
  IN  <<82, 73, 70, 70>> \o u32(36 + dataSize) \o <<87, 65, 86, 69>>
      \o <<102, 109, 116, 32>> \o u32(16) \o u16(1) \o u16(numChan)
      \o u32(sampleRate) \o u32(byteRate) \o u16(blockAlign) \o u16(16)
      \o <<100, 97, 116, 97>> \o u32(dataSize)

\* a sample left as it is
ClampSampleNone(s) == s

\* Math.max(-1, Math.min(1, s))
ClampSample(s) == Max(0 - SampleUnit, Min(SampleUnit, s))

\* s < 0 ? s * 0x8000 : s * 0x7FFF, as setInt16 converts it: the fraction
\* is dropped (towards zero) and the result taken modulo 2^16
ScaleSample(s) ==
  IF s < 0 THEN (0 - (((0 - s) * 32768) \div SampleUnit)) % 65536
  ELSE ((s * 32767) \div SampleUnit) % 65536

\* view.setInt16(offset, v, true): two's complement, low byte first
SampleBytes(s) == <<ScaleSample(ClampSample(s)) % 256, ScaleSample(ClampSample(s)) \div 256>>

\* the loops over frames i and channels c
RECURSIVE Interleave(_, _, _)
Interleave(audioBuffer, i, c) ==
  IF i > audioBuffer.length THEN <<>>
  ELSE IF c > audioBuffer.numberOfChannels THEN Interleave(audioBuffer, i + 1, 1)
  ELSE SampleBytes(audioBuffer.channels[c][i]) \o Interleave(audioBuffer, i, c + 1)

encodeWav(audioBuffer) ==
  WavHeader(audioBuffer.numberOfChannels, audioBuffer.sampleRate, audioBuffer.length)
  \o Interleave(audioBuffer, 1, 1)

\* ------------------------------------------------------------------------
\* Audio rendering.  An AudioBuffer is represented by its length, its sample
\* rate and what its samples are computed from: the lane's schedule and the
\* Math.random() stream the render consumed.
\* ------------------------------------------------------------------------
DefaultSampleRate == 48000

\* Math.ceil(totalSec * sr) with totalSec = totalBeats * (60 / bpm)
Ceil(n, d) == (n + d - 1) \div d
BufferLength(spec, sr) == Ceil(TotalBars(spec.structure) * beatsPerBar * 60 * sr, spec.bpm)

AudioBuffer(length, sr, lane, schedule, noise) ==
  [length |-> length, sampleRate |-> sr, numberOfChannels |-> 2,
   samples |-> [lane |-> lane, schedule |-> schedule, noise |-> noise]]

\* Each lane render returns the events it pushed to midiOut and the buffer
\* that ctx.startRendering() resolves to.  amb is the outcome of the
\* Math.random() calls of the render: the reverb impulse of
\* createReverbBuffer, the noise bursts of the drum voices and the onset
\* jitter of the bass notes.
RenderDrumsLane(length, sr, spec, amb) ==
  Let(renderDrums(spec), LAMBDA midiOut :
    [midiOut |-> midiOut, buffer |-> AudioBuffer(length, sr, "drums", midiOut, amb)])

\* RenderBassLane that pushes the jittered onset of a note as its startBeat
RenderBassLaneJitter(length, sr, spec, harmony, amb) ==
  Let(renderBass(spec, harmony), LAMBDA exact :
  Let([i \in 1..Len(exact) |->
         [exact[i] EXCEPT !.startBeat =
            @ + (IF (i % 4) = 1 THEN 0 ELSE amb * (UnitsPerBeat \div 100))]], LAMBDA midiOut :
    [midiOut |-> midiOut, buffer |-> AudioBuffer(length, sr, "bass", midiOut, amb)]))

RenderBassLane(length, sr, spec, harmony, amb) ==
  Let(renderBass(spec, harmony), LAMBDA midiOut :
    [midiOut |-> midiOut, buffer |-> AudioBuffer(length, sr, "bass", midiOut, amb)])

RenderChordsLane(length, sr, spec, harmony, amb) ==
  Let(renderChords(spec, harmony), LAMBDA midiOut :
    [midiOut |-> midiOut, buffer |-> AudioBuffer(length, sr, "chords", midiOut, amb)])

RenderLeadLane(length, sr, spec, harmony, amb) ==
  Let(renderLead(spec, harmony), LAMBDA midiOut :
    [midiOut |-> midiOut, buffer |-> AudioBuffer(length, sr, "lead", midiOut, amb)])

\* #mix: the four stems summed through a gain
MixBuffers(buffers) ==
  [length |-> Max(Max(buffers[1].length, buffers[2].length),
                  Max(buffers[3].length, buffers[4].length)),
   sampleRate |-> buffers[1].sampleRate, numberOfChannels |-> 2,
   samples |-> [i \in 1..4 |-> buffers[i].samples]]

\* ------------------------------------------------------------------------
\* Bounds and input sets
\* ------------------------------------------------------------------------
MaxCalls == 2        \* generate calls made on the instance
MaxSections == 2     \* sections of a structure given to makeHarmonyMap
MaxBars == 3         \* bars of one section
MaxTokLen == 3       \* length of the exhaustively enumerated chord strings
MaxNormSections == 3 \* length of the bar lists given to normalizeBars
MaxBaseBar == 5      \* largest base bar count of those lists
MaxTargetBars == 8   \* largest targetBars
MaxTenths == 6       \* largest targetMin, in tenths of a minute
MaxApply == 2        \* times normalizeBars is applied to its own result
MaxEvents == 2       \* events of the bass list given to writeMidi
MaxVlqRun == 300     \* vlq is called on every n up to this, and on VlqEdges
MaxFrames == 2       \* frames of the buffers given to encodeWav
MaxSeed == 3         \* seeds of the specs given to the lane generators
MaxSources == 3      \* previews started in App
MaxTimers == 2       \* pending close timers of one audio context

\* every sequence over S of length 0..n
SeqsUpTo(S, n) == UNION {[1..k -> S] : k \in 0..n}

DefaultProgression == <<"I"," ","V"," ","v","i"," ","I","V">>

Verse1 == [name |-> "Verse", bars |-> 1, chords |-> <<>>]

SpecSet ==
  { [seed |-> 1, key |-> <<"C">>, mode |-> "major", bpm |-> 120,
     progression |-> DefaultProgression, structure |-> <<Verse1>>],
    [seed |-> 2, key |-> <<"C">>, mode |-> "major", bpm |-> 120,
     progression |-> DefaultProgression, structure |-> <<Verse1>>],
    [seed |-> 1, key |-> <<"A">>, mode |-> "minor", bpm |-> 96,
     progression |-> DefaultProgression,
     structure |-> <<[name |-> "Verse", bars |-> 1, chords |-> <<"A","m"," ","G">>]>>],
    \* a section without bars before a section of one bar
    [seed |-> 1, key |-> <<"C">>, mode |-> "major", bpm |-> 120,
     progression |-> DefaultProgression,
     structure |-> <<[name |-> "Verse", bars |-> 0, chords |-> <<>>],
                     [name |-> "Chorus", bars |-> 1, chords |-> <<>>]>>],
    \* the timeline editor can remove every section
    [seed |-> 1, key |-> <<"C">>, mode |-> "major", bpm |-> 120,
     progression |-> DefaultProgression, structure |-> <<>>] }

\* distinguishable outcomes of the Math.random() stream of one generate call
AmbientDraws == {0, 1}

ChordStrings ==
  { <<>>,
    <<" ","-"," ">>,
    <<"x","y","z">>,
    <<"C",",","G","d","i","m","|","A","m","7">>,
    <<"v","i","i","°","-","H","-","B","b","a","u","g">> }

HProgressions == { DefaultProgression, <<>>, <<"D","m"," ","x","y","z">> }
HKeys == {0, 11}
TokChars == {"I", "V", "i", "°", "C", "b", "m", "7", "x", "-"}

HSections == [name : {"Verse"}, bars : 1..MaxBars, chords : ChordStrings]
\* Verse 8 bars, Chorus 8 bars, no section chords
ScenarioStructure ==
  <<[name |-> "Verse", bars |-> 8, chords |-> <<>>],
    [name |-> "Chorus", bars |-> 8, chords |-> <<>>]>>
HStructures == (SeqsUpTo(HSections, MaxSections) \ {<<>>}) \cup {ScenarioStructure}

FourFour == <<"4","/","4">>
TimeSigs == {FourFour, <<"3","/","4">>}
\* 0 is a falsy bpm (120 is used), 30 and 300 are clamped to 40 and 260
BpmInputs == {0, 30, 96, 120, 142, 300}

DefaultTimeline ==
  <<"intro","verse","pre","chorus","verse","pre","chorus","break","bridge","chorus","outro">>
SectionKinds == {"intro", "verse", "pre", "solo"}
Timelines == (SeqsUpTo(SectionKinds, MaxNormSections) \ {<<>>}) \cup {DefaultTimeline}

BaseBarLists == SeqsUpTo(1..MaxBaseBar, MaxNormSections) \ {<<>>}

\* event lists given to writeMidi: positions 0, 1/2 and 1 beat, notes of a
\* quarter beat and of one beat, in any order
BassInputs ==
  SeqsUpTo([startBeat : {0, UnitsPerBeat \div 2, UnitsPerBeat},
            durBeats : {UnitsPerBeat \div 4, UnitsPerBeat},
            midi : {36}, vel : {100}], MaxEvents)
DrumInputs ==
  { <<>>,
    <<[startBeat |-> 0, durBeats |-> UnitsPerBeat \div 10, note |-> 36, vel |-> 112]>>,
    <<[startBeat |-> 0, durBeats |-> UnitsPerBeat \div 10, note |-> 36],
      [startBeat |-> UnitsPerBeat + (UnitsPerBeat \div 200),
       durBeats |-> UnitsPerBeat \div 10, note |-> 38, vel |-> 104]>> }
ChordInputs ==
  { <<>>,
    <<[startBeat |-> 0, durBeats |-> 4 * UnitsPerBeat, midis |-> <<48>>, vel |-> 90]>>,
    <<[startBeat |-> 0, durBeats |-> 4 * UnitsPerBeat, midis |-> <<48>>, vel |-> 90],
      [startBeat |-> 4 * UnitsPerBeat, durBeats |-> 4 * UnitsPerBeat, midis |-> <<55>>, vel |-> 90]>>,
    <<[startBeat |-> 0, durBeats |-> 4 * UnitsPerBeat, midis |-> <<48, 52, 55>>, vel |-> 90]>> }
LeadInputs ==
  { <<>>,
    <<[startBeat |-> 0, durBeats |-> UnitsPerBeat \div 2, midi |-> 72]>>,
    <<[startBeat |-> 0, durBeats |-> UnitsPerBeat \div 2, midi |-> 72, vel |-> 96],
      [startBeat |-> UnitsPerBeat \div 2, durBeats |-> UnitsPerBeat \div 4, midi |-> 76, vel |-> 96]>> }
\* 70 and 210 are the ends of the BPM slider
MidiBpms == {70, 96, 120, 210}
MidiInputs ==
  [bpm : MidiBpms, drumEvents : DrumInputs, bassEvents : BassInputs,
   chordEvents : ChordInputs, leadEvents : LeadInputs]

\* the values at which the number of 7-bit groups changes, and the largest
VlqEdges ==
  {127 * 128 + 127, 128 * 128, 128 * 128 + 1, 128 * 128 * 128 - 1, 128 * 128 * 128,
   128 * 128 * 128 + 129, 100 * 1000 * 1000, 128 * 128 * 128 * 128 - 1}
VlqInputs == (0..MaxVlqRun) \cup VlqEdges

\* ------------------------------------------------------------------------
\* State
\* ------------------------------------------------------------------------
VARIABLES
  lastMidi,    \* SongGenerator._lastMidi; NoMidi while the field is unset
  calls,       \* the generate calls: position, spec, event arrays, buffers
  completed,   \* ids of the generate calls that completed, in completion order
  exported,    \* outcome of the latest exportMidi call
  thread,      \* "running", or "hung" inside a call that never returns
  hArgs,       \* arguments of the latest makeHarmonyMap call
  harmony,     \* its result
  nArgs,       \* arguments of the latest normalizeBars call
  nBars,       \* its result
  nPrev,       \* the bar list it was applied to
  nCalls,      \* times normalizeBars has been applied in a row
  session,     \* structure of the SessionSpec built by buildSessionSpec
  encCall,     \* the latest direct call of an encoder: function and argument
  encResult,   \* what that call returned, or Diverges
  laneSpec,    \* the spec of the latest run of the four lane generators
  lanes,       \* the harmony map and the four event arrays of that run
  audioRef,    \* App: audioRef.current, 0 for null, else the source it holds
  playing,     \* App: the buffer sources that are started and not stopped
  isRendering, \* App: a play() call is awaiting generate
  nextSrc,     \* App: number of sources created so far
  timers,      \* App: pending 80 ms timers of stop(), per context they close
  rafs,        \* App: the playback loops with a pending animation frame
  rafRef       \* App: rafRef.current, the loop that requested a frame last

vars == <<lastMidi, calls, completed, exported, thread,
          hArgs, harmony, nArgs, nBars, nPrev, nCalls, session, encCall, encResult,
          laneSpec, lanes, audioRef, playing, isRendering, nextSrc, timers, rafs, rafRef>>

genVars == <<lastMidi, calls, completed, exported, thread>>
harmonyVars == <<hArgs, harmony>>
normVars == <<nArgs, nBars, nPrev, nCalls, session>>
encVars == <<encCall, encResult>>
laneVars == <<laneSpec, lanes>>
appVars == <<audioRef, playing, isRendering, nextSrc, timers, rafs, rafRef>>

NoMidi == [unset |-> TRUE]
NoArgs == [unset |-> TRUE]
NoExport == [kind |-> "none"]

IdleCall == [pc |-> "idle"]

Init ==
  /\ lastMidi = NoMidi
  /\ calls = [c \in 1..MaxCalls |-> IdleCall]
  /\ completed = <<>>
  /\ exported = NoExport
  /\ thread = "running"
  /\ hArgs = NoArgs
  /\ harmony = <<>>
  /\ nArgs = NoArgs
  /\ nBars = <<>>
  /\ nPrev = <<>>
  /\ nCalls = 0
  /\ session = <<>>
  /\ encCall = NoArgs
  /\ encResult = NoArgs
  /\ laneSpec = NoArgs
  /\ lanes = NoArgs
  /\ audioRef = 0
  /\ playing = {}
  /\ isRendering = FALSE
  /\ nextSrc = 0
  /\ timers = [i \in 1..MaxSources |-> 0]
  /\ rafs = {}
  /\ rafRef = 0

\* ------------------------------------------------------------------------
\* SongGenerator.generate and exportMidi
\* ------------------------------------------------------------------------
\* generate up to its first await: the harmony map, the four event arrays and
\* the four lane renders, which run synchronously up to startRendering().
\* new OfflineAudioContext(2, length, sr) throws for length < 1, before the
\* render pushes any event; the async render then returns a rejected promise.
RanBeforeAwait ==
  {"makeHarmonyMap", "#renderDrums", "#renderBass", "#renderChords", "#renderLead"}

GenerateSync(spec, amb) ==
  LET sr == DefaultSampleRate
      length == BufferLength(spec, sr)
      keySemi == KeySemi(spec)
  IN  IF length < 1
      THEN [pc |-> "rendering", spec |-> spec, amb |-> amb, threw |-> TRUE,
            ran |-> RanBeforeAwait,
            drumEvents |-> <<>>, bassEvents |-> <<>>,
            chordEvents |-> <<>>, leadEvents |-> <<>>]
      ELSE Let(makeHarmonyMap(spec.structure, spec.progression, keySemi, spec.mode), LAMBDA harm :
           Let(RenderDrumsLane(length, sr, spec, amb), LAMBDA drums :
           Let(RenderBassLane(length, sr, spec, harm, amb), LAMBDA bass :
           Let(RenderChordsLane(length, sr, spec, harm, amb), LAMBDA chords :
           Let(RenderLeadLane(length, sr, spec, harm, amb), LAMBDA lead :
             [pc |-> "rendering", spec |-> spec, amb |-> amb, threw |-> FALSE,
              ran |-> RanBeforeAwait,
              drumEvents |-> drums.midiOut, bassEvents |-> bass.midiOut,
              chordEvents |-> chords.midiOut, leadEvents |-> lead.midiOut,
              stems |-> [drums |-> drums.buffer, bass |-> bass.buffer,
                         chords |-> chords.buffer, lead |-> lead.buffer]])))))

\* GenerateSync on the inputs of the model, computed once
GenerateSyncTable == [spec \in SpecSet, amb \in AmbientDraws |-> GenerateSync(spec, amb)]

GenerateStart(c, spec, amb) ==
  /\ thread = "running"
  /\ calls[c].pc = "idle"
  /\ \A d \in 1..(c - 1) : calls[d].pc # "idle"
  /\ calls' = [calls EXCEPT ![c] = GenerateSyncTable[spec, amb]]
  /\ UNCHANGED <<lastMidi, completed, exported, thread, harmonyVars, normVars, encVars, laneVars, appVars>>

\* RendersSettle that assigns _lastMidi as soon as the renders are done,
\* before the mix
RendersSettleRecording(c) ==
  /\ thread = "running"
  /\ calls[c].pc = "rendering"
  /\ calls' = [calls EXCEPT ![c].pc = IF calls[c].threw THEN "rejected" ELSE "mixing"]
  /\ lastMidi' = IF calls[c].threw THEN lastMidi
                 ELSE [bpm |-> calls[c].spec.bpm,
                       drumEvents |-> calls[c].drumEvents, bassEvents |-> calls[c].bassEvents,
                       chordEvents |-> calls[c].chordEvents, leadEvents |-> calls[c].leadEvents]
  /\ UNCHANGED <<completed, exported, thread, harmonyVars, normVars, encVars, laneVars, appVars>>

\* await Promise.all([...]) settles: generate rejects when a render threw,
\* otherwise it calls #mix and awaits it
RendersSettle(c) ==
  /\ thread = "running"
  /\ calls[c].pc = "rendering"
  /\ calls' = [calls EXCEPT ![c].pc = IF calls[c].threw THEN "rejected" ELSE "mixing"]
  /\ UNCHANGED <<lastMidi, completed, exported, thread, harmonyVars, normVars, encVars, laneVars, appVars>>

\* the promise of a lane's ctx.startRendering() rejects (the browser cannot
\* render the buffer): Promise.all rejects and generate with it
RenderRejects(c) ==
  /\ thread = "running"
  /\ calls[c].pc = "rendering"
  /\ calls' = [calls EXCEPT ![c] = [calls[c] EXCEPT !.pc = "rejected"] @@ [renderFailed |-> TRUE]]
  /\ UNCHANGED <<lastMidi, completed, exported, thread, harmonyVars, normVars, encVars, laneVars, appVars>>

\* the promise of #mix rejects: generate rejects at its second await
MixRejects(c) ==
  /\ thread = "running"
  /\ calls[c].pc = "mixing"
  /\ calls' = [calls EXCEPT ![c] = [calls[c] EXCEPT !.pc = "rejected"] @@ [mixFailed |-> TRUE]]
  /\ UNCHANGED <<lastMidi, completed, exported, thread, harmonyVars, normVars, encVars, laneVars, appVars>>

\* await this.#mix(...) settles: _lastMidi is assigned and generate resolves
MixSettle(c) ==
  /\ thread = "running"
  /\ calls[c].pc = "mixing"
  /\ LET st == calls[c].stems
         mix == MixBuffers(<<st.drums, st.bass, st.chords, st.lead>>)
     IN  calls' = [calls EXCEPT ![c] = [calls[c] EXCEPT !.pc = "resolved"] @@ [mix |-> mix]]
  /\ lastMidi' = [bpm |-> calls[c].spec.bpm,
                  drumEvents |-> calls[c].drumEvents, bassEvents |-> calls[c].bassEvents,
                  chordEvents |-> calls[c].chordEvents, leadEvents |-> calls[c].leadEvents]
  /\ completed' = Append(completed, c)
  /\ UNCHANGED <<exported, thread, harmonyVars, normVars, encVars, laneVars, appVars>>

\* what a call of exportMidi does, given what writeMidi does
ExportOutcome(doc) ==
  IF doc = Diverges THEN [kind |-> "hung", completed |-> completed]
  ELSE [kind |-> "returned", doc |-> doc, completed |-> completed]

\* exportMidi: throws while _lastMidi is unset, otherwise writeMidi(_lastMidi)
ExportMidi ==
  /\ thread = "running"
  /\ exported' = IF lastMidi = NoMidi
                 THEN [kind |-> "threw", error |-> "No MIDI in memory. Call generate() first.",
                       completed |-> completed]
                 ELSE ExportOutcome(writeMidi(lastMidi))
  /\ thread' = IF exported'.kind = "hung" THEN "hung" ELSE thread
  /\ UNCHANGED <<lastMidi, calls, completed, harmonyVars, normVars, encVars, laneVars, appVars>>

\* await this.#mix(...) settles in a call made by App.exportMidi: generate
\* assigns _lastMidi and resolves, and the caller, resumed from its await in
\* the same turn of the event loop (no other call's continuation can run in
\* between), calls songGen.exportMidi()
MixSettleExport(c) ==
  /\ thread = "running"
  /\ calls[c].pc = "mixing"
  /\ LET st == calls[c].stems
         mix == MixBuffers(<<st.drums, st.bass, st.chords, st.lead>>)
     IN  calls' = [calls EXCEPT ![c] = [calls[c] EXCEPT !.pc = "resolved"] @@ [mix |-> mix]]
  /\ lastMidi' = [bpm |-> calls[c].spec.bpm,
                  drumEvents |-> calls[c].drumEvents, bassEvents |-> calls[c].bassEvents,
                  chordEvents |-> calls[c].chordEvents, leadEvents |-> calls[c].leadEvents]
  /\ completed' = Append(completed, c)
  /\ exported' = Let(writeMidi(lastMidi'), LAMBDA doc :
                    IF doc = Diverges
                    THEN [kind |-> "hung", completed |-> completed', by |-> c, payload |-> lastMidi']
                    ELSE [kind |-> "returned", doc |-> doc, completed |-> completed',
                          by |-> c, payload |-> lastMidi'])
  /\ thread' = IF exported'.kind = "hung" THEN "hung" ELSE thread
  /\ UNCHANGED <<harmonyVars, normVars, encVars, laneVars, appVars>>

Next ==
  \/ \E c \in 1..MaxCalls, spec \in SpecSet, amb \in AmbientDraws : GenerateStart(c, spec, amb)
  \/ \E c \in 1..MaxCalls : RendersSettle(c)
  \/ \E c \in 1..MaxCalls : MixSettle(c)
  \/ \E c \in 1..MaxCalls : RenderRejects(c)
  \/ \E c \in 1..MaxCalls : MixRejects(c)
  \/ \E c \in 1..MaxCalls : MixSettleExport(c)
  \/ ExportMidi

Spec == Init /\ [][Next]_vars

\* ------------------------------------------------------------------------
\* makeHarmonyMap called on bounded inputs
\* ------------------------------------------------------------------------
CallMakeHarmonyMap(structure, defaultProg, keySemi, mode) ==
  /\ hArgs' = [structure |-> structure, defaultProg |-> defaultProg,
               keySemi |-> keySemi, mode |-> mode]
  /\ harmony' = makeHarmonyMap(structure, defaultProg, keySemi, mode)
  /\ UNCHANGED <<genVars, normVars, encVars, laneVars, appVars>>

\* a curated structure
HarmonyOfStructure ==
  /\ hArgs = NoArgs
  /\ \E structure \in HStructures, defaultProg \in HProgressions,
        keySemi \in HKeys, mode \in {"major", "minor"} :
       CallMakeHarmonyMap(structure, defaultProg, keySemi, mode)

\* one bar over every chord string of at most MaxTokLen characters
HarmonyOfString ==
  /\ hArgs = NoArgs
  /\ \E chords \in SeqsUpTo(TokChars, MaxTokLen), keySemi \in HKeys, mode \in {"major", "minor"} :
       CallMakeHarmonyMap(<<[name |-> "Verse", bars |-> 1, chords |-> chords]>>,
                          <<"x">>, keySemi, mode)

NextHarmony == HarmonyOfStructure \/ HarmonyOfString

SpecHarmony == Init /\ [][NextHarmony]_vars

\* ------------------------------------------------------------------------
\* makeHarmonyMap called on one bar of one chord token: every roman numeral
\* in upper, lower and mixed case with and without the diminished marker,
\* and letter names with every accidental and quality suffix, in every key
\* and both modes
\* ------------------------------------------------------------------------
InputNumerals ==
  {<<"I">>, <<"I","I">>, <<"I","I","I">>, <<"I","V">>, <<"V">>, <<"V","I">>, <<"V","I","I">>}

LowerRoman(c) == IF c = "I" THEN "i" ELSE "v"

\* upper case, lower case, only the first letter lower, only the first upper
RomanCasings(n) ==
  { n,
    [i \in 1..Len(n) |-> LowerRoman(n[i])],
    [i \in 1..Len(n) |-> IF i = 1 THEN LowerRoman(n[i]) ELSE n[i]],
    [i \in 1..Len(n) |-> IF i = 1 THEN n[i] ELSE LowerRoman(n[i])] }

RomanInputs ==
  UNION {UNION {{t, t \o <<"°">>, <<"°">> \o t} : t \in RomanCasings(n)} : n \in InputNumerals}

NameRoots == {"C", "D", "E", "F", "G", "A", "B", "c", "g"}

NameInputs ==
  {<<r>> \o acc \o suf \o sev :
     r \in NameRoots, acc \in {<<>>, <<"b">>, <<"#">>},
     suf \in QualitySuffixes \cup {<<>>}, sev \in {<<>>, <<"7">>}}

ChordTokens == RomanInputs \cup NameInputs

HarmonyOfToken ==
  /\ hArgs = NoArgs
  /\ \E tok \in ChordTokens, keySemi \in 0..11, mode \in {"major", "minor"} :
       CallMakeHarmonyMap(<<[name |-> "Verse", bars |-> 1, chords |-> tok]>>,
                          <<"x">>, keySemi, mode)

NextChord == HarmonyOfToken

SpecChord == Init /\ [][NextChord]_vars

\* ------------------------------------------------------------------------
\* The four lane generators run as generate runs them, on the harmony map of
\* the spec: seeds 1..MaxSeed, three keys, both modes, two tempos, structures
\* of one to eight bars with and without section chords
\* ------------------------------------------------------------------------
LaneStructures ==
  { <<Verse1>>,
    <<[name |-> "Verse", bars |-> 2, chords |-> <<"A","m"," ","G">>],
      [name |-> "Chorus", bars |-> 1, chords |-> <<>>]>>,
    <<[name |-> "Verse", bars |-> 3, chords |-> <<"v","i","i","°"," ","F","#","d","i","m">>]>> }

Verse8 == [name |-> "Verse", bars |-> 8, chords |-> <<>>]

\* the short structures in every key, mode and tempo; eight and nine bars
\* in C major and A minor
LaneSpecs ==
  [seed : 1..MaxSeed, key : {<<"C">>, <<"A">>, <<"B">>}, mode : {"major", "minor"},
   bpm : {96, 120}, progression : {DefaultProgression}, structure : LaneStructures]
  \cup
  [seed : 1..MaxSeed, key : {<<"C">>}, mode : {"major"},
   bpm : {120}, progression : {DefaultProgression}, structure : {<<Verse8>>}]
  \cup
  [seed : 1..MaxSeed, key : {<<"A">>}, mode : {"minor"},
   bpm : {96}, progression : {DefaultProgression}, structure : {<<Verse8, Verse1>>}]

\* what generate computes before its first await, without the audio
LaneTimelines(spec) ==
  Let(makeHarmonyMap(spec.structure, spec.progression, KeySemi(spec), spec.mode), LAMBDA harm :
    [harmony |-> harm,
     drumEvents |-> renderDrums(spec),
     bassEvents |-> renderBass(spec, harm),
     chordEvents |-> renderChords(spec, harm),
     leadEvents |-> renderLead(spec, harm)])

RunLanes ==
  /\ laneSpec = NoArgs
  /\ \E spec \in LaneSpecs :
       /\ laneSpec' = spec
       /\ lanes' = LaneTimelines(spec)
  /\ UNCHANGED <<genVars, harmonyVars, normVars, encVars, appVars>>

NextLanes == RunLanes

SpecLanes == Init /\ [][NextLanes]_vars

\* ------------------------------------------------------------------------
\* Playback control of App (App.jsx).  A source and the audio context it
\* plays in have the same number.  The play buttons are disabled while
\* isRendering is set.
\* ------------------------------------------------------------------------
\* stop() with pending the animation frames pending when it is called:
\* nothing but state resets while audioRef.current is null; otherwise
\* src.stop(), the 80 ms timer for the context and
\* cancelAnimationFrame(rafRef.current)
StopBody(pending) ==
  IF audioRef = 0
  THEN /\ rafs' = pending
       /\ UNCHANGED <<audioRef, playing, timers, rafRef>>
  ELSE /\ playing' = playing \ {audioRef}
       /\ timers' = [timers EXCEPT ![audioRef] = @ + 1]
       /\ rafs' = pending \ {rafRef}
       /\ UNCHANGED <<audioRef, rafRef>>

TimerRoom == IF audioRef = 0 THEN TRUE ELSE timers[audioRef] < MaxTimers

\* a click on a stop button
Stop ==
  /\ TimerRoom
  /\ StopBody(rafs)
  /\ UNCHANGED <<isRendering, nextSrc>>
  /\ UNCHANGED <<genVars, harmonyVars, normVars, encVars, laneVars>>

\* play() while audioRef.current is set: stop() and return
PlayStops ==
  /\ ~isRendering
  /\ audioRef # 0
  /\ TimerRoom
  /\ StopBody(rafs)
  /\ UNCHANGED <<isRendering, nextSrc>>
  /\ UNCHANGED <<genVars, harmonyVars, normVars, encVars, laneVars>>

\* play() while audioRef.current is null, up to await songGen.generate(spec)
PlayBegins ==
  /\ ~isRendering
  /\ audioRef = 0
  /\ nextSrc < MaxSources
  /\ isRendering' = TRUE
  /\ UNCHANGED <<audioRef, playing, nextSrc, timers, rafs, rafRef>>
  /\ UNCHANGED <<genVars, harmonyVars, normVars, encVars, laneVars>>

\* generate resolved: play() creates the context and the source, starts it,
\* assigns audioRef.current and calls startRaf
PlayResumes ==
  /\ isRendering
  /\ nextSrc' = nextSrc + 1
  /\ playing' = playing \cup {nextSrc'}
  /\ audioRef' = nextSrc'
  /\ rafs' = rafs \cup {nextSrc'}
  /\ rafRef' = nextSrc'
  /\ isRendering' = FALSE
  /\ UNCHANGED timers
  /\ UNCHANGED <<genVars, harmonyVars, normVars, encVars, laneVars>>

\* generate rejected: the catch clause of play() calls stop()
PlayFails ==
  /\ isRendering
  /\ TimerRoom
  /\ StopBody(rafs)
  /\ isRendering' = FALSE
  /\ UNCHANGED nextSrc
  /\ UNCHANGED <<genVars, harmonyVars, normVars, encVars, laneVars>>

\* the timer set by a stop() call fires: the context the call read from
\* audioRef.current is closed and audioRef.current is set to null
TimerFires(ctx) ==
  /\ timers[ctx] > 0
  /\ timers' = [timers EXCEPT ![ctx] = @ - 1]
  /\ playing' = playing \ {ctx}
  /\ audioRef' = 0
  /\ UNCHANGED <<isRendering, nextSrc, rafs, rafRef>>
  /\ UNCHANGED <<genVars, harmonyVars, normVars, encVars, laneVars>>

\* an animation frame of the loop that startRaf began for source loop:
\* tick requests the next frame while the clip has time left (more) and
\* audioRef.current is set, and calls stop() otherwise
Tick(loop, more) ==
  /\ loop \in rafs
  /\ IF more /\ audioRef # 0
     THEN /\ rafRef' = loop
          /\ UNCHANGED <<audioRef, playing, timers, rafs>>
     ELSE /\ TimerRoom
          /\ StopBody(rafs \ {loop})
  /\ UNCHANGED <<isRendering, nextSrc>>
  /\ UNCHANGED <<genVars, harmonyVars, normVars, encVars, laneVars>>

\* a source has played its buffer to the end
SourceEnds(src) ==
  /\ src \in playing
  /\ playing' = playing \ {src}
  /\ UNCHANGED <<audioRef, isRendering, nextSrc, timers, rafs, rafRef>>
  /\ UNCHANGED <<genVars, harmonyVars, normVars, encVars, laneVars>>

NextApp ==
  \/ Stop
  \/ PlayStops
  \/ PlayBegins
  \/ PlayResumes
  \/ PlayFails
  \/ \E ctx \in 1..MaxSources : TimerFires(ctx)
  \/ \E loop \in 1..MaxSources, more \in BOOLEAN : Tick(loop, more)
  \/ \E src \in 1..MaxSources : SourceEnds(src)

SpecApp == Init /\ [][NextApp]_vars

\* ------------------------------------------------------------------------
\* normalizeBars called on bounded inputs
\* ------------------------------------------------------------------------
\* the target of a call: target bars, target minutes (in tenths), or neither
Targets ==
  [targetBars : 1..MaxTargetBars, targetMin : {0}, bpm : {120}, timeSig : {FourFour}]
  \cup [targetBars : {0}, targetMin : 1..MaxTenths, bpm : BpmInputs, timeSig : TimeSigs]
  \cup [targetBars : {0}, targetMin : {0}, bpm : {120}, timeSig : {FourFour}]

CallNormalizeBars ==
  /\ nCalls = 0
  /\ \E baseBars \in BaseBarLists, t \in Targets :
    LET args == [baseBars |-> baseBars, targetMin |-> t.targetMin,
                 targetBars |-> t.targetBars, bpm |-> t.bpm, timeSig |-> t.timeSig]
    IN  /\ nArgs' = args
        /\ nPrev' = baseBars
        /\ nBars' = normalizeBars(args)
        /\ nCalls' = 1
        /\ session' = <<>>
        /\ UNCHANGED <<genVars, harmonyVars, encVars, laneVars, appVars>>

\* buildSessionSpec as exportClip (targetBars: 16) and play/exportFull
\* (targetMin: lengthMin) call it
BuildSessionSpec ==
  /\ nCalls = 0
  /\ \E timeline \in Timelines, bpm \in {96, 120, 142},
     t \in {[targetBars |-> 16, targetMin |-> 0]}
           \cup [targetBars : {0}, targetMin : 1..MaxTenths] :
    LET baseBars == [i \in 1..Len(timeline) |->
                       IF SECTION_DEFAULTS(timeline[i]) = 0 THEN 4
                       ELSE SECTION_DEFAULTS(timeline[i])]
        structure == buildSessionSpec(timeline, t.targetMin, t.targetBars, bpm, FourFour)
    IN  /\ nArgs' = [baseBars |-> baseBars, targetMin |-> t.targetMin,
                     targetBars |-> t.targetBars, bpm |-> bpm, timeSig |-> FourFour]
        /\ nPrev' = baseBars
        /\ nBars' = [i \in 1..Len(structure) |-> structure[i].bars]
        /\ nCalls' = 1
        /\ session' = structure
        /\ UNCHANGED <<genVars, harmonyVars, encVars, laneVars, appVars>>

\* normalizeBars applied to its own result with the same target
NormalizeAgain ==
  /\ nCalls >= 1
  /\ nCalls < MaxApply
  /\ nArgs' = [nArgs EXCEPT !.baseBars = nBars]
  /\ nPrev' = nBars
  /\ nBars' = normalizeBars([nArgs EXCEPT !.baseBars = nBars])
  /\ nCalls' = nCalls + 1
  /\ UNCHANGED <<session, genVars, harmonyVars, encVars, laneVars, appVars>>

NextNorm == CallNormalizeBars \/ BuildSessionSpec \/ NormalizeAgain

SpecNorm == Init /\ [][NextNorm]_vars

\* ------------------------------------------------------------------------
\* encodeWav called on bounded buffers: mono and stereo, up to MaxFrames
\* frames, samples inside, on and beyond the rails
\* ------------------------------------------------------------------------
SampleValues == {0 - 6, 0 - 4, 0 - 1, 0, 1, 4, 6}
SampleRates == {44100, 48000}

WavInputs(n, c) ==
  {[numberOfChannels |-> c, sampleRate |-> r, length |-> n, channels |-> ch] :
     ch \in [1..c -> [1..n -> SampleValues]], r \in SampleRates}

CallEncodeWav ==
  /\ encCall = NoArgs
  /\ \E n \in 0..MaxFrames, c \in 1..2 :
       \E buf \in WavInputs(n, c) :
         /\ encCall' = [fn |-> "encodeWav", arg |-> buf]
         /\ encResult' = encodeWav(buf)
  /\ UNCHANGED <<genVars, harmonyVars, normVars, laneVars, appVars>>

NextWav == CallEncodeWav

SpecWav == Init /\ [][NextWav]_vars

\* ------------------------------------------------------------------------
\* writeMidi and vlq called on bounded inputs
\* ------------------------------------------------------------------------
CallWriteMidi ==
  /\ encCall = NoArgs
  /\ \E midi \in MidiInputs :
       /\ encCall' = [fn |-> "writeMidi", arg |-> midi]
       /\ encResult' = writeMidi(midi)
  /\ UNCHANGED <<genVars, harmonyVars, normVars, laneVars, appVars>>

CallVlq ==
  /\ encCall = NoArgs
  /\ \E n \in VlqInputs :
       /\ encCall' = [fn |-> "vlq", arg |-> n]
       /\ encResult' = vlq(n)
  /\ UNCHANGED <<genVars, harmonyVars, normVars, laneVars, appVars>>

NextMidi == CallWriteMidi \/ CallVlq

SpecMidi == Init /\ [][NextMidi]_vars

\* ------------------------------------------------------------------------
\* Properties of generate and exportMidi (Spec)
\* ------------------------------------------------------------------------
Started(c) == calls[c].pc # "idle"
Resolved(c) == calls[c].pc = "resolved"

\* what generate assigns to _lastMidi for call c
MidiPayload(c) ==
  [bpm |-> calls[c].spec.bpm,
   drumEvents |-> calls[c].drumEvents, bassEvents |-> calls[c].bassEvents,
   chordEvents |-> calls[c].chordEvents, leadEvents |-> calls[c].leadEvents]

C2_SameSpecSameBuffers ==
  \A c1, c2 \in 1..MaxCalls :
    (Resolved(c1) /\ Resolved(c2) /\ calls[c1].spec = calls[c2].spec)
      => /\ calls[c1].stems = calls[c2].stems
         /\ calls[c1].mix = calls[c2].mix

LaneEventLists(midi) ==
  <<DrumNotes(midi.drumEvents), midi.bassEvents, midi.chordEvents, midi.leadEvents>>

InvalidSpec(spec) ==
  \/ spec.bpm <= 0
  \/ spec.structure = <<>>
  \/ \E i \in 1..Len(spec.structure) : spec.structure[i].bars <= 0

\* C11: generate rejects an invalid spec before the harmony map is built:
\* the call is rejected, neither makeHarmonyMap nor a lane render ran on
\* the spec, no event was recorded and _lastMidi is never set from it.
C11_InvalidSpecRejected ==
  \A c \in 1..MaxCalls :
    (Started(c) /\ InvalidSpec(calls[c].spec))
      => /\ calls[c].threw
         /\ calls[c].ran = {}
         /\ calls[c].pc \in {"rendering", "rejected"}

\* ------------------------------------------------------------------------
\* Properties of makeHarmonyMap (SpecHarmony)
\* ------------------------------------------------------------------------
HCalled == hArgs # NoArgs

\* number of bars before section s
SectionOffset(structure, s) == SumSeq([i \in 1..(s - 1) |-> structure[i].bars])

\* the tokens of section s
SectionToks(s) ==
  tokenizeProgression(IF hArgs.structure[s].chords # <<>> THEN hArgs.structure[s].chords
                      ELSE hArgs.defaultProg)

\* the chord of bar j (0-based) of section s
BarChord(s, j) == harmony[SectionOffset(hArgs.structure, s) + j + 1]

TonicMajor(keySemi) == <<48 + keySemi, 52 + keySemi, 55 + keySemi>>

\* C3: makeHarmonyMap returns exactly sum(section.bars) chords, the chords
\* of each section in section order at the section's bar positions, and
\* every bar gets three notes even when the section's chord string is empty
\* or has no parsable token.
C3_OneChordPerBar ==
  HCalled =>
    /\ Len(harmony) = SumSeq([i \in 1..Len(hArgs.structure) |-> hArgs.structure[i].bars])
    /\ \A i \in 1..Len(harmony) :
         /\ DOMAIN harmony[i].notes = 1..3
         /\ \A k \in 1..3 : harmony[i].notes[k] \in 0..127
    /\ \A s \in 1..Len(hArgs.structure) :
         Let(SectionToks(s), LAMBDA toks :
         Let({ResolveToken(toks[t], hArgs.keySemi, hArgs.mode) : t \in 1..Len(toks)}
               \cup {TonicMajor(hArgs.keySemi)}, LAMBDA chords :
           \A j \in 0..(hArgs.structure[s].bars - 1) : BarChord(s, j).notes \in chords))

\* two sections, the first with separators only, the second unparsable
C3_Witness ==
  /\ HCalled
  /\ Len(hArgs.structure) = 2
  /\ hArgs.structure[1].chords = <<" ","-"," ">>
  /\ hArgs.structure[2].chords = <<"x","y","z">>
  /\ hArgs.structure[1].bars = 2 /\ hArgs.structure[2].bars = MaxBars
  /\ Len(harmony) = 2 + MaxBars

\* the tokens the two parsers are written for: a numeral I..VII in any
\* letter case with at most one diminished marker, at any position
Numerals == {<<"I">>, <<"I","I">>, <<"I","I","I">>, <<"I","V">>, <<"V">>, <<"V","I">>,
             <<"V","I","I">>}
NumeralSpellings ==
  UNION {{v \in [1..Len(w) -> {"I", "i", "V", "v"}] : toUpperCase(v) = w} : w \in Numerals}
RomanTokens ==
  NumeralSpellings
  \cup UNION {{SubSeq(v, 1, p) \o <<"°">> \o SubSeq(v, p + 1, Len(v)) : p \in 0..Len(v)} :
              v \in NumeralSpellings}
\* a root letter, an optional accidental, an optional quality, an optional 7
NameTokens ==
  {<<r>> \o acc \o q \o sev :
     r \in RootLetters, acc \in {<<>>, <<"b">>, <<"#">>},
     q \in QualitySuffixes \cup {<<>>}, sev \in {<<>>, <<"7">>}}

Unrecognised(tok) == tok \notin RomanTokens /\ tok \notin NameTokens

\* C4: a bar whose token is neither a roman numeral nor a letter-name chord,
\* and every bar of a section without tokens, is the major triad on the
\* session key, in major and in minor mode; every bar is resolved.
C4_FallbackTonicMajor ==
  HCalled =>
    \A s \in 1..Len(hArgs.structure) :
      \A j \in 0..(hArgs.structure[s].bars - 1) :
        LET toks == SectionToks(s)
        IN  (toks = <<>> \/ Unrecognised(toks[(j % Len(toks)) + 1]))
              => BarChord(s, j).notes = TonicMajor(hArgs.keySemi)

\* "xyz" in minor mode on key B
C4_Witness ==
  /\ HCalled
  /\ hArgs.mode = "minor" /\ hArgs.keySemi = 11
  /\ hArgs.structure[1].chords = <<"x","y","z">>
  /\ harmony[1].notes = <<59, 63, 66>>

\* C5: in a section with n >= 1 tokens, bar j of the section resolves token
\* j mod n of the section's chord string (of the default progression when
\* the section has none); the index restarts with every section, so with
\* "I V vi IV" in C major and sections of 8 and 8 bars the map has 16 chords
\* and bars 0 and 8 are both the C major triad.
C5_TokenCyclesPerSection ==
  HCalled =>
    /\ \A s \in 1..Len(hArgs.structure) :
         \A j \in 0..(hArgs.structure[s].bars - 1) :
           LET toks == SectionToks(s)
           IN  toks # <<>> =>
                 BarChord(s, j).notes =
                   ResolveToken(toks[(j % Len(toks)) + 1], hArgs.keySemi, hArgs.mode)
    /\ (/\ hArgs.structure = ScenarioStructure
        /\ hArgs.defaultProg = DefaultProgression
        /\ hArgs.keySemi = 0 /\ hArgs.mode = "major")
         => /\ Len(harmony) = 16
            /\ harmony[1].notes = <<48, 52, 55>>
            /\ harmony[9].notes = <<48, 52, 55>>

\* a first section whose bar count is not a multiple of the four tokens: the
\* second section starts again at the tonic
C5_Witness ==
  /\ HCalled
  /\ Len(hArgs.structure) = 2
  /\ hArgs.structure[1].chords = <<>> /\ hArgs.structure[2].chords = <<>>
  /\ hArgs.defaultProg = DefaultProgression
  /\ hArgs.structure[1].bars = 3 /\ hArgs.structure[2].bars = 2
  /\ hArgs.keySemi = 0 /\ hArgs.mode = "major"
  /\ harmony[4].notes = <<48, 52, 55>>
  /\ harmony[5].notes = <<55, 59, 62>>

\* ------------------------------------------------------------------------
\* Properties of normalizeBars (SpecNorm)
\* ------------------------------------------------------------------------
\* C6: normalizeBars returns one bar count per input section, in the same
\* order, and every count is an integer >= 1, for every target; the
\* structure buildSessionSpec builds has one section per timeline entry
\* with those counts.
C6_EverySectionKept ==
  nCalls >= 1 =>
    /\ Len(nBars) = Len(nPrev)
    /\ \A i \in 1..Len(nBars) : nBars[i] \in Nat /\ nBars[i] >= 1
    /\ \A i, j \in 1..Len(nBars) : nPrev[i] <= nPrev[j] => nBars[i] <= nBars[j]
    /\ (nCalls = 1 /\ session # <<>>) =>
         /\ Len(session) = Len(nBars)
         /\ \A i \in 1..Len(session) : session[i].bars = nBars[i]

\* a section whose scaled count rounds to 0 is kept with one bar
C6_Witness ==
  /\ nCalls = 1
  /\ nArgs.targetBars # 0
  /\ \E i \in 1..Len(nPrev) :
       /\ 2 * nPrev[i] * nArgs.targetBars < SumSeq(nPrev)
       /\ nBars[i] = 1

\* C7: in target-total-bars mode with targetBars >= the number of sections,
\* the returned bar counts sum to exactly targetBars.
C7_SumIsTarget ==
  (nCalls = 1 /\ nArgs.targetBars # 0 /\ nArgs.targetBars >= Len(nPrev))
    => SumSeq(nBars) = nArgs.targetBars

\* C8: normalizeBars applied to its own result with the same target returns
\* that result.
C8_Idempotent == nCalls >= 2 => nBars = nPrev

\* C9: in target-duration mode the target total is
\* round(targetSeconds / secondsPerBar), at least 8, and the sections are
\* scaled by it as in target-total-bars mode.
C9_DurationTargetAtLeast8 ==
  (nCalls = 1 /\ nArgs.targetBars = 0 /\ nArgs.targetMin # 0) =>
    LET bs == beatSeconds(nArgs.bpm)
        bpb == beatsPerBarFromTimeSig(nArgs.timeSig)
        targetSeconds == nArgs.targetMin * 6
        target == Max(8, Round(targetSeconds * bs.den, bpb * bs.num))
        sum == SumSeq(nPrev)
    IN  nBars = [i \in 1..Len(nPrev) |-> Max(1, Round(nPrev[i] * target, sum))]

\* ------------------------------------------------------------------------
\* Properties of the steps of generate (Spec)
\* ------------------------------------------------------------------------
Enters(c, pc) == calls[c].pc # pc /\ calls'[c].pc = pc

\* C24: a call starts its mix only from the state in which its four lane
\* renders have completed without failure; _lastMidi changes only in the
\* step in which a call's mix completes and the call resolves, and it
\* becomes that call's timelines; a step in which a call is rejected, after
\* a failed render or a failed mix, leaves _lastMidi and the completed calls
\* as they were.
C24_MixAfterRendersRecordAfterMix ==
  [][ /\ \A c \in 1..MaxCalls :
           /\ Enters(c, "mixing") =>
                /\ calls[c].pc = "rendering" /\ ~calls[c].threw
                /\ DOMAIN calls[c].stems = {"drums", "bass", "chords", "lead"}
           /\ Enters(c, "resolved") =>
                /\ calls[c].pc = "mixing"
                /\ "mix" \in DOMAIN calls'[c]
                /\ lastMidi' = MidiPayload(c)
           /\ Enters(c, "rejected") =>
                /\ calls[c].pc \in {"rendering", "mixing"}
                /\ lastMidi' = lastMidi /\ completed' = completed
      /\ lastMidi' # lastMidi => \E c \in 1..MaxCalls : Enters(c, "resolved")
    ]_vars

\* a call was rejected at its mix after another call had completed, and
\* _lastMidi is still what the completed call recorded
C24_Witness ==
  \E c1, c2 \in 1..MaxCalls :
    /\ Resolved(c1)
    /\ calls[c2].pc = "rejected" /\ "mixFailed" \in DOMAIN calls[c2]
    /\ calls[c1].spec # calls[c2].spec
    /\ lastMidi = MidiPayload(c1)
    /\ lastMidi # MidiPayload(c2)

\* the latest exportMidi call was made by the caller of generate call c as
\* that call resolved, while another generate call was in flight
ExportedAfterOverlap(c) ==
  /\ "by" \in DOMAIN exported
  /\ exported.by = c
  /\ \E d \in 1..MaxCalls : d # c /\ calls[d].pc \in {"rendering", "mixing"}

\* whatever that exportMidi call does, it does it with the timelines of its
\* own generate call
ExportPayloadIsOwn ==
  \A c \in 1..MaxCalls : ExportedAfterOverlap(c) => exported.payload = MidiPayload(c)

TokenResolved == hArgs # NoArgs /\ Len(hArgs.structure) = 1 /\ Len(harmony) = 1
TheToken == hArgs.structure[1].chords
TheChord == harmony[1].notes

\* what the token says, read without the parsers of the program: for a
\* roman numeral the marker and the case of its letters, for a letter name
\* the suffix
IsRomanToken == TheToken \in RomanTokens
RomanLetters == SelectSeq(TheToken, LAMBDA c : c # "°")
RomanDegree ==
  CHOOSE d \in 1..7 :
    [i \in 1..Len(RomanLetters) |->
       IF RomanLetters[i] \in {"I", "i"} THEN "I" ELSE "V"]
      = <<(<<"I">>), (<<"I","I">>), (<<"I","I","I">>), (<<"I","V">>), (<<"V">>),
          (<<"V","I">>), (<<"V","I","I">>)>>[d]
WrittenQuality ==
  IF IsRomanToken
  THEN IF \E i \in 1..Len(TheToken) : TheToken[i] = "°" THEN "dim"
       ELSE IF \A i \in 1..Len(RomanLetters) : RomanLetters[i] \in {"I", "V"} THEN "maj"
       ELSE "min"
  ELSE LET body == SelectSeq(Tail(TheToken), LAMBDA c : c \notin {"#", "7"})
           suf == IF body # <<>> /\ body[1] = "b" THEN Tail(body) ELSE body
       IN  IF suf \in {<<"m">>, <<"m","i","n">>} THEN "min"
           ELSE IF suf = <<"d","i","m">> THEN "dim"
           ELSE IF suf = <<"a","u","g">> THEN "aug"
           ELSE "maj"

ThirdOf(q) == IF q \in {"maj", "aug"} THEN 4 ELSE 3
FifthOf(q) == IF q = "dim" THEN 6 ELSE IF q = "aug" THEN 8 ELSE 7

\* C21: the three tones of a resolved chord of quality q are congruent
\* modulo 12 to root, root + third(q), root + fifth(q), with (third, fifth)
\* (4,7) for major, (3,7) for minor, (3,6) for diminished, (4,8) for
\* augmented, for roman-numeral and letter-name tokens.
C21_TriadIntervals ==
  TokenResolved =>
    /\ (TheChord[2] - TheChord[1]) % 12 = ThirdOf(WrittenQuality)
    /\ (TheChord[3] - TheChord[1]) % 12 = FifthOf(WrittenQuality)

\* C22: every note of every chord lies in 48..72 and the first note, the
\* root the bass lane uses, in 48..59, for every key, mode, degree, letter
\* root and quality.
C22_NotesInWindow ==
  TokenResolved =>
    /\ \A k \in 1..3 : TheChord[k] \in 48..72
    /\ Len(TheChord) = 3
    /\ TheChord[1] \in 48..59

\* the augmented triad on B, whose fifth is the highest tone there is
C22_Witness ==
  /\ TokenResolved
  /\ TheToken = <<"B", "a", "u", "g">>
  /\ TheChord[1] = 59 /\ TheChord[3] = 67

\* C23: for a roman-numeral token of degree d the root's pitch class is
\* (key + table[mode][d]) mod 12, MAJOR table 0,2,4,5,7,9,11 and natural
\* minor table 0,2,3,5,7,8,10; the triad is major when the letters are all
\* upper-case, minor otherwise, diminished whenever the marker is present.
C23_RomanRootAndQuality ==
  (TokenResolved /\ IsRomanToken) =>
    LET table == IF hArgs.mode = "minor" THEN <<0, 2, 3, 5, 7, 8, 10>>
                 ELSE <<0, 2, 4, 5, 7, 9, 11>>
    IN  /\ TheChord[1] % 12 = (hArgs.keySemi + table[RomanDegree]) % 12
        /\ (TheChord[2] - TheChord[1]) % 12 = ThirdOf(WrittenQuality)
        /\ (TheChord[3] - TheChord[1]) % 12 = FifthOf(WrittenQuality)

\* the mixed-case numeral Iv with the marker in front, in B minor
C23_Witness ==
  /\ TokenResolved
  /\ TheToken = <<"°", "I", "v">>
  /\ hArgs.keySemi = 11 /\ hArgs.mode = "minor"
  /\ TheChord = <<52, 55, 58>>

\* ------------------------------------------------------------------------
\* Properties of the lane timelines (SpecLanes)
\* ------------------------------------------------------------------------
LanesRun == laneSpec # NoArgs
LaneBars == Len(lanes.harmony)

\* C25: in a generation over at least 8 bars, for every bar with index 7
\* modulo 8 the drum events contain the fill on the bar's last beat b: note
\* 42 at beat b + 0.25 and note 38 at beat b + 0.5.
C25_FillOnEighthBar ==
  (LanesRun /\ LaneBars >= 8) =>
    \A bar \in 0..(LaneBars - 1) :
      (bar % 8 = 7) =>
        LET b == bar * beatsPerBar + 3
        IN  /\ \E i \in 1..Len(lanes.drumEvents) :
                 /\ lanes.drumEvents[i].note = 42
                 /\ lanes.drumEvents[i].startBeat = b * UnitsPerBeat + UnitsPerBeat \div 4
            /\ \E i \in 1..Len(lanes.drumEvents) :
                 /\ lanes.drumEvents[i].note = 38
                 /\ lanes.drumEvents[i].startBeat = b * UnitsPerBeat + UnitsPerBeat \div 2

\* C26: the lead lane is monophonic: of two consecutive lead events the
\* earlier ends, at startBeat + durBeats, no later than the next starts,
\* across bar boundaries as well.
C26_LeadMonophonic ==
  LanesRun =>
    \A i \in 1..(Len(lanes.leadEvents) - 1) :
      lanes.leadEvents[i].startBeat + lanes.leadEvents[i].durBeats
        <= lanes.leadEvents[i + 1].startBeat

\* the pitches of an event: midis of a chord event, note of a drum event,
\* midi otherwise
PitchesOf(e) ==
  IF "midis" \in DOMAIN e THEN {e.midis[k] : k \in 1..Len(e.midis)}
  ELSE IF "note" \in DOMAIN e THEN {e.note}
  ELSE {e.midi}

WellFormedLane(events) ==
  /\ \A i \in 1..Len(events) :
       /\ events[i].startBeat >= 0
       /\ events[i].durBeats > 0
       /\ PitchesOf(events[i]) # {}
       /\ PitchesOf(events[i]) \subseteq 0..127
       /\ events[i].vel \in 1..127
  /\ \A i \in 1..(Len(events) - 1) : events[i].startBeat <= events[i + 1].startBeat

\* C27: every event of every lane has startBeat >= 0, durBeats > 0, pitches
\* in 0..127 and velocity in 1..127, and every lane's list is in
\* non-decreasing startBeat order.
C27_EventsWellFormed ==
  LanesRun =>
    /\ WellFormedLane(lanes.drumEvents)
    /\ WellFormedLane(lanes.bassEvents)
    /\ WellFormedLane(lanes.chordEvents)
    /\ WellFormedLane(lanes.leadEvents)

\* a run over nine bars in which the drum lane has an extra kick and the
\* lead lane a note on the last sixteenth of a bar
C27_Witness ==
  /\ LanesRun
  /\ LaneBars = 9
  /\ Len(lanes.bassEvents) = 36 /\ Len(lanes.chordEvents) = 9
  /\ \E i \in 1..Len(lanes.drumEvents) : lanes.drumEvents[i].vel = 102
  /\ \E i \in 1..Len(lanes.leadEvents) :
       lanes.leadEvents[i].startBeat % (beatsPerBar * UnitsPerBeat)
         = 15 * (UnitsPerBeat \div 4)

\* the events of a lane that start in bar k
BarEvents(events, k) ==
  SelectSeq(events, LAMBDA e :
    /\ e.startBeat >= k * beatsPerBar * UnitsPerBeat
    /\ e.startBeat < (k + 1) * beatsPerBar * UnitsPerBeat)

\* another song with the same seed, key, mode and bpm and the same chord in
\* bar k: it ends after bar k and every earlier bar has the chord D F A
OtherChord == <<50, 53, 57>>
OtherSpec(k) ==
  [laneSpec EXCEPT !.structure = <<[name |-> "Other", bars |-> k + 1, chords |-> <<>>]>>]
OtherHarmony(k) ==
  [i \in 1..(k + 1) |-> IF i = k + 1 THEN lanes.harmony[i] ELSE [notes |-> OtherChord]]

\* C28: in every lane the events of bar k depend on seed, key, mode, bpm, k
\* and the chord of bar k only: the song that has other chords in the bars
\* before k and no bars after k has the same events in bar k.
C28_BarEventsLocal ==
  LanesRun =>
    \A k \in 0..(LaneBars - 1) :
      /\ BarEvents(lanes.drumEvents, k) = BarEvents(renderDrums(OtherSpec(k)), k)
      /\ BarEvents(lanes.bassEvents, k)
           = BarEvents(renderBass(OtherSpec(k), OtherHarmony(k)), k)
      /\ BarEvents(lanes.chordEvents, k)
           = BarEvents(renderChords(OtherSpec(k), OtherHarmony(k)), k)
      /\ BarEvents(lanes.leadEvents, k)
           = BarEvents(renderLead(OtherSpec(k), OtherHarmony(k)), k)

\* a run over nine bars none of which has the chord D F A, with lead notes
\* taken from the chord in its last bar
C28_Witness ==
  /\ LanesRun
  /\ LaneBars = 9
  /\ \A i \in 1..LaneBars : lanes.harmony[i].notes # OtherChord
  /\ \E i \in 1..Len(BarEvents(lanes.leadEvents, 8)) :
       BarEvents(lanes.leadEvents, 8)[i].midi \in {n + 12 : n \in PitchesOf([midis |-> lanes.harmony[9].notes])}

\* ------------------------------------------------------------------------
\* Properties of the playback control (SpecApp)
\* ------------------------------------------------------------------------
\* C30: at most one source is playing, and a source that is playing is the
\* one audioRef.current holds, so that stop() stops it.
C30_OnePlayingSourceHeld ==
  /\ Cardinality(playing) <= 1
  /\ \A src \in playing : audioRef = src

\* ------------------------------------------------------------------------
\* A reader of Standard MIDI Files, as the format defines them
\* ------------------------------------------------------------------------
ReadError == [ok |-> FALSE]

\* a variable-length quantity of at most four bytes starting at position p
RECURSIVE ReadVlqFrom(_, _, _, _)
ReadVlqFrom(bytes, p, acc, count) ==
  IF p > Len(bytes) \/ count = 4 THEN ReadError
  ELSE IF bytes[p] >= 128 THEN ReadVlqFrom(bytes, p + 1, acc * 128 + (bytes[p] - 128), count + 1)
  ELSE [ok |-> TRUE, value |-> acc * 128 + bytes[p], next |-> p + 1]

ReadVlq(bytes, p) == ReadVlqFrom(bytes, p, 0, 0)

\* a 4-byte big-endian number at position p
U32BE(bytes, p) == ((bytes[p] * 256 + bytes[p + 1]) * 256 + bytes[p + 2]) * 256 + bytes[p + 3]

\* the chunks of a file: 4-byte tag, 4-byte big-endian length, payload
RECURSIVE ReadChunksFrom(_, _, _)
ReadChunksFrom(doc, p, acc) ==
  IF p = Len(doc) + 1 THEN [ok |-> TRUE, chunks |-> acc]
  ELSE IF p + 7 > Len(doc) \/ doc[p + 4] >= 128 THEN ReadError
  ELSE Let(U32BE(doc, p + 4), LAMBDA len :
         IF p + 7 + len > Len(doc) THEN ReadError
         ELSE ReadChunksFrom(doc, p + 8 + len,
                Append(acc, [tag |-> SubSeq(doc, p, p + 3), length |-> len,
                             payload |-> SubSeq(doc, p + 8, p + 7 + len)])))

ReadChunks(doc) == ReadChunksFrom(doc, 1, <<>>)

\* data bytes of a channel message: one for program change (0xC0) and
\* channel pressure (0xD0), two for the others
DataLen(status) == IF (status \div 16) \in {12, 13} THEN 1 ELSE 2

\* the events of a track from position p on, up to and including the end
\* of track meta event: each with its absolute tick, its status byte and its
\* data (for a meta event the type followed by the data; a system exclusive
\* event has its data skipped).  running is the running status, 0 for none.
RECURSIVE ReadTrackFrom(_, _, _, _, _)
ReadTrackFrom(bytes, p, tick, running, acc) ==
  Let(ReadVlq(bytes, p), LAMBDA d :
    IF ~d.ok THEN ReadError
    ELSE IF d.next > Len(bytes) THEN ReadError
    ELSE Let(bytes[d.next], LAMBDA b :
      IF b = 255 \/ b = 240 \/ b = 247
      THEN \* meta event FF type len data, system exclusive F0/F7 len data
           Let(IF b = 255 THEN d.next + 2 ELSE d.next + 1, LAMBDA lp :
           Let(ReadVlq(bytes, lp), LAMBDA l :
             IF ~l.ok THEN ReadError
             ELSE IF l.next + l.value - 1 > Len(bytes) THEN ReadError
             ELSE Let([tick |-> tick + d.value, status |-> b,
                       data |-> IF b = 255
                                THEN <<bytes[d.next + 1]>>
                                     \o SubSeq(bytes, l.next, l.next + l.value - 1)
                                ELSE <<>>], LAMBDA e :
                    IF b = 255 /\ e.data[1] = 47
                    THEN [ok |-> TRUE, events |-> Append(acc, e), next |-> l.next + l.value]
                    ELSE ReadTrackFrom(bytes, l.next + l.value, e.tick, 0, Append(acc, e)))))
      ELSE IF b > 240 THEN ReadError
      ELSE \* channel message, with running status when b is a data byte
           Let(IF b >= 128 THEN b ELSE running, LAMBDA status :
           Let(IF b >= 128 THEN d.next + 1 ELSE d.next, LAMBDA q :
             IF status = 0 THEN ReadError
             ELSE IF q + DataLen(status) - 1 > Len(bytes) THEN ReadError
             ELSE IF \E k \in q..(q + DataLen(status) - 1) : bytes[k] >= 128 THEN ReadError
             ELSE ReadTrackFrom(bytes, q + DataLen(status), tick + d.value, status,
                    Append(acc, [tick |-> tick + d.value, status |-> status,
                                 data |-> SubSeq(bytes, q, q + DataLen(status) - 1)]))))))

\* a track is read when its end of track event is the last thing in it
ReadTrack(bytes) ==
  Let(ReadTrackFrom(bytes, 1, 0, 0, <<>>), LAMBDA t :
    IF ~t.ok THEN ReadError
    ELSE IF t.next # Len(bytes) + 1 THEN ReadError
    ELSE t)

RECURSIVE Pow128(_)
Pow128(k) == IF k = 0 THEN 1 ELSE 128 * Pow128(k - 1)

\* ------------------------------------------------------------------------
\* Properties of vlq and writeMidi (SpecMidi)
\* ------------------------------------------------------------------------
VlqCalled == encCall # NoArgs /\ encCall.fn = "vlq"

MidiCalled == encCall # NoArgs /\ encCall.fn = "writeMidi"
DocReturned == MidiCalled /\ encResult # Diverges

\* the payload of the track of lane 1..4 (drums, bass, chords, lead), and of
\* the tempo track for lane 0
TrackPayload(lane) == ReadChunks(encResult).chunks[lane + 2].payload

LaneChannel == <<9, 0, 1, 2>>

\* C16: the document is an MThd chunk declaring format 1, 5 tracks and the
\* ppq, followed by exactly 5 MTrk chunks that fill the file; every length
\* field is the length of its payload and every track payload ends with an
\* end of track meta event (delta 0, FF 2F 00).
C16_HeaderAndChunks ==
  DocReturned =>
    LET file == ReadChunks(encResult)
    IN  /\ file.ok
        /\ Len(file.chunks) = 6
        /\ file.chunks[1].tag = <<77, 84, 104, 100>>
        /\ file.chunks[1].payload = <<0, 1, 0, 5, DefaultPpq \div 256, DefaultPpq % 256>>
        /\ \A k \in 2..6 :
             LET c == file.chunks[k]
             IN  /\ c.tag = <<77, 84, 114, 107>>
                 /\ c.length = Len(c.payload)
                 /\ Len(c.payload) >= 4
                 /\ SubSeq(c.payload, Len(c.payload) - 3, Len(c.payload)) = <<0, 255, 47, 0>>
        /\ SubSeq(encResult, 1, 14)
             = <<77, 84, 104, 100, 0, 0, 0, 6, 0, 1, 0, 5, DefaultPpq \div 256, DefaultPpq % 256>>

\* a document with notes in the drum, bass, chord and lead tracks
C16_Witness ==
  /\ DocReturned
  /\ Len(encCall.arg.drumEvents) = 2 /\ Len(encCall.arg.bassEvents) = 2
  /\ Len(encCall.arg.chordEvents) = 2 /\ Len(encCall.arg.leadEvents) = 2
  /\ ReadChunks(encResult).ok
  /\ Len(TrackPayload(1)) > 4 /\ Len(TrackPayload(4)) > 4

\* C17: the tempo event of track 0 carries round(60000000 / bpm) as a
\* 3-byte big-endian number, whatever the bpm.
C17_TempoIsRounded ==
  DocReturned =>
    LET t == ReadTrack(TrackPayload(0))
        us == Round(60000000, encCall.arg.bpm)
    IN  /\ t.ok
        /\ t.events[1] = [tick |-> 0, status |-> 255,
                          data |-> <<81, (us \div 65536) % 256, (us \div 256) % 256, us % 256>>]

\* the events of a lane track as a reader sees them
LaneTrack(lane) == ReadTrack(TrackPayload(lane))

IsNoteOn(e, ch) == e.status = 144 + ch /\ Len(e.data) = 2 /\ e.data[2] > 0
IsNoteOff(e, ch) ==
  \/ e.status = 128 + ch /\ Len(e.data) = 2
  \/ e.status = 144 + ch /\ Len(e.data) = 2 /\ e.data[2] = 0
IsEndOfTrack(e) == e.status = 255 /\ e.data = <<47>>

\* C15: every lane track is read as a program change of the lane's channel
\* at tick 0, then note-ons and note-offs of that channel in equal number,
\* then the end of track event, and nothing else.
C15_LaneTracksStartWithProgram ==
  DocReturned =>
    \A lane \in 1..4 :
      LET t == LaneTrack(lane)
          ch == LaneChannel[lane]
      IN  /\ t.ok
          /\ Len(t.events) >= 2
          /\ t.events[1].tick = 0
          /\ t.events[1].status = 192 + ch
          /\ IsEndOfTrack(t.events[Len(t.events)])
          /\ \A k \in 2..(Len(t.events) - 1) :
               IsNoteOn(t.events[k], ch) \/ IsNoteOff(t.events[k], ch)
          /\ Cardinality({k \in 2..(Len(t.events) - 1) : IsNoteOn(t.events[k], ch)})
               = Cardinality({k \in 2..(Len(t.events) - 1) : IsNoteOff(t.events[k], ch)})

\* the ticks at which the claim places the note-ons of a lane: one per
\* pitch of each event, at round(startBeat * ppq)
RECURSIVE ExpectedOnTicks(_, _)
ExpectedOnTicks(events, ppq) ==
  IF events = <<>> THEN <<>>
  ELSE LET e == Head(events)
           n == IF "midis" \in DOMAIN e THEN Len(e.midis) ELSE 1
       IN  [k \in 1..n |-> Round(e.startBeat * ppq, UnitsPerBeat)]
           \o ExpectedOnTicks(Tail(events), ppq)

CountAt(ticks, t) == Cardinality({i \in 1..Len(ticks) : ticks[i] = t})

\* the ticks of the note-ons a reader finds in a lane track
ReadOnTicks(lane) ==
  LET t == LaneTrack(lane)
      ons == SelectSeq(t.events, LAMBDA e : IsNoteOn(e, LaneChannel[lane]))
  IN  [i \in 1..Len(ons) |-> ons[i].tick]

\* C14: in every lane track of a document a reader finds as many note-ons
\* as the lane's list has pitches, at the ticks round(startBeat * ppq).
C14_ReaderRecoversNoteOns ==
  DocReturned =>
    \A lane \in 1..4 :
      LET expected == ExpectedOnTicks(LaneEventLists(encCall.arg)[lane], DefaultPpq)
      IN  /\ LaneTrack(lane).ok
          /\ Len(ReadOnTicks(lane)) = Len(expected)
          /\ \A i \in 1..Len(expected) :
               CountAt(ReadOnTicks(lane), expected[i]) = CountAt(expected, expected[i])

\* C18: for 0 <= n < 2^28, vlq(n) returns 1 to 4 bytes, each carrying 7 bits
\* of n, most significant group first, bit 7 set on every byte but the
\* last; decoding the bytes as a variable-length quantity yields n.
C18_VlqRoundTrip ==
  (VlqCalled /\ encCall.arg >= 0 /\ encCall.arg < Pow128(4)) =>
    /\ encResult # Diverges
    /\ Len(encResult) \in 1..4
    /\ \A k \in 1..Len(encResult) :
         /\ encResult[k] \in 0..255
         /\ (encResult[k] >= 128) = (k < Len(encResult))
         /\ encResult[k] % 128 = (encCall.arg \div Pow128(Len(encResult) - k)) % 128
    /\ ReadVlq(encResult, 1) = [ok |-> TRUE, value |-> encCall.arg, next |-> Len(encResult) + 1]

\* the largest four-byte quantity
C18_Witness ==
  /\ VlqCalled
  /\ encCall.arg = Pow128(4) - 1
  /\ encResult = <<255, 255, 255, 127>>

\* ------------------------------------------------------------------------
\* A reader of WAV files
\* ------------------------------------------------------------------------
U16LE(bytes, p) == bytes[p] + 256 * bytes[p + 1]
U32LE(bytes, p) == bytes[p] + 256 * (bytes[p + 1] + 256 * (bytes[p + 2] + 256 * bytes[p + 3]))
S16LE(bytes, p) == IF U16LE(bytes, p) >= 32768 THEN U16LE(bytes, p) - 65536 ELSE U16LE(bytes, p)

\* ------------------------------------------------------------------------
\* Properties of encodeWav (SpecWav)
\* ------------------------------------------------------------------------
WavCalled == encCall # NoArgs /\ encCall.fn = "encodeWav"

\* C19: for a buffer of N frames, C channels and sample rate R the result
\* has 44 + N*C*2 bytes and its header reads: RIFF size total - 8, format
\* code 1, C channels, sample rate R, byte rate R*C*2, block align C*2,
\* 16 bits per sample, data length N*C*2.
C19_WavLengthAndHeader ==
  WavCalled =>
    LET N == encCall.arg.length
        C == encCall.arg.numberOfChannels
        R == encCall.arg.sampleRate
        wav == encResult
    IN  /\ Len(wav) = 44 + N * C * 2
        /\ \A k \in 1..Len(wav) : wav[k] \in 0..255
        /\ SubSeq(wav, 1, 4) = <<82, 73, 70, 70>>
        /\ U32LE(wav, 5) = Len(wav) - 8
        /\ SubSeq(wav, 9, 16) = <<87, 65, 86, 69, 102, 109, 116, 32>>
        /\ U32LE(wav, 17) = 16
        /\ U16LE(wav, 21) = 1
        /\ U16LE(wav, 23) = C
        /\ U32LE(wav, 25) = R
        /\ U32LE(wav, 29) = R * C * 2
        /\ U16LE(wav, 33) = C * 2
        /\ U16LE(wav, 35) = 16
        /\ SubSeq(wav, 37, 40) = <<100, 97, 116, 97>>
        /\ U32LE(wav, 41) = N * C * 2

\* a stereo buffer of two frames at 44100 Hz has been encoded
C19_Witness ==
  /\ WavCalled
  /\ encCall.arg.numberOfChannels = 2
  /\ encCall.arg.length = 2
  /\ encCall.arg.sampleRate = 44100
  /\ Len(encResult) = 52

\* C20: the 16-bit little-endian signed value at frame i, channel c (frames
\* in order, the channels of a frame in order) is the sample clamped to
\* [-1, 1] and scaled by 32768 when negative, by 32767 otherwise; it lies in
\* -32768..32767, and is -32768 for samples <= -1 and 32767 for samples >= 1.
C20_SamplesClampedAndScaled ==
  WavCalled =>
    \A i \in 1..encCall.arg.length : \A c \in 1..encCall.arg.numberOfChannels :
      LET s == encCall.arg.channels[c][i]
          clamped == IF s < 0 - SampleUnit THEN 0 - SampleUnit
                     ELSE IF s > SampleUnit THEN SampleUnit ELSE s
          scaled == IF clamped < 0 THEN clamped * 32768 ELSE clamped * 32767
          v == S16LE(encResult, 45 + 2 * ((i - 1) * encCall.arg.numberOfChannels + (c - 1)))
      IN  /\ v \in (0 - 32768)..32767
          /\ v * SampleUnit > scaled - SampleUnit
          /\ v * SampleUnit < scaled + SampleUnit
          /\ (s <= 0 - SampleUnit) => v = 0 - 32768
          /\ (s >= SampleUnit) => v = 32767

\* a stereo buffer with samples beyond both rails and inside them, different
\* in the two channels and the two frames, has been encoded
C20_Witness ==
  /\ WavCalled
  /\ encCall.arg.numberOfChannels = 2
  /\ encCall.arg.length = 2
  /\ encCall.arg.channels = <<(<<6, 0 - 1>>), (<<0 - 6, 1>>)>>
  /\ SubSeq(encResult, 45, 52) = <<255, 127, 0, 128, 0, 224, 255, 31>>

====
